---- MODULE Spec2Model ----
(***************************************************************************)
(* Model of the cadence-workflow-linter call-graph registry                *)
(* (analyzer/registry): the WorkflowRegistry accumulator, its mutators     *)
(* MarkWorkflow / MarkActivity / AddEdges / ProcessFile, its queries       *)
(* IsWorkflowReachable / CallPathTo / ReachableFromWorkflows /             *)
(* GetCallStack, the call-graph builder BuildEdges, the gate of the        *)
(* FuncCallDetector and the first pass of the scanner; and of the scanner  *)
(* itself (analyzer/scanner.go: PackageResolver, the two passes of         *)
(* ScanFile / ScanDirectory) with the go.mod helpers of analyzer/modutils. *)
(***************************************************************************)
EXTENDS Integers, Sequences, FiniteSets, TLC

VARIABLES
    wr,        \* the shared *WorkflowRegistry: WorkflowFuncs, ActivityFuncs, CallGraph
    processed, \* the files (indices of FilePool) ProcessFile was called on, in call order
    mod,       \* a *ModuleInfo with the last question put to it and its answer
    res,       \* a *PackageResolver with the log of its computePackagePath calls
    scan       \* one run of ScanFile / ScanDirectory: position, parsed files, result

vars == <<wr, processed, mod, res, scan>>

(***************************************************************************)
(* Bounds and input pools                                                  *)
(***************************************************************************)
MaxEdges == 3      \* total number of call edges the registry may hold

Pkg == "p"
FuncNames     == {"W", "H1", "H2", "A"}   \* the functions of package Pkg
WorkflowNames == {"W", "H1"}              \* names handed to MarkWorkflow
ActivityNames == {"A", "W"}               \* names handed to MarkActivity

(***************************************************************************)
(* Helpers on sequences and Go maps                                        *)
(***************************************************************************)
Range(s) == {s[i] : i \in DOMAIN s}

Count(s, x) == Cardinality({i \in DOMAIN s : s[i] = x})

\* all orders in which a Go `for k := range m` may visit the key set S
Orders(S) == {s \in [1..Cardinality(S) -> S] : Range(s) = S}

\* m[k] on a map[string][]string: the nil slice for a missing key
Lookup(m, k) == IF k \in DOMAIN m THEN m[k] ELSE <<>>

\* m[k] on a map[string]string: "" for a missing key
LookupStr(m, k) == IF k \in DOMAIN m THEN m[k] ELSE ""

\* m[k] = v on a Go map
MapSet(m, k, v) == [x \in (DOMAIN m) \cup {k} |-> IF x = k THEN v ELSE m[x]]

(***************************************************************************)
(* callgraph_builder.go: canonical                                         *)
(***************************************************************************)
\* strings.TrimSpace on the package paths the model uses
TrimSpace(s) == IF s \in {" ", "  "} THEN "" ELSE s

canonical(pkgOrImportPath, funcName) ==
    LET t == TrimSpace(pkgOrImportPath)
        p == IF t = "" THEN "local" ELSE t
    IN  p \o "." \o funcName

Names == {canonical(Pkg, f) : f \in FuncNames}

(***************************************************************************)
(* workflow_registry.go: constructor and mutators                          *)
(***************************************************************************)
NewWorkflowRegistry ==
    [WorkflowFuncs |-> {}, ActivityFuncs |-> {}, CallGraph |-> <<>>]

MarkWorkflowOp(r, pkgPath, funcName) ==
    [r EXCEPT !.WorkflowFuncs = @ \cup {canonical(pkgPath, funcName)}]

\* a classification that treats the two sets as exclusive
MarkActivityOp_Exclusive(r, pkgPath, funcName) ==
    [r EXCEPT !.ActivityFuncs = @ \cup {canonical(pkgPath, funcName)},
              !.WorkflowFuncs = @ \ {canonical(pkgPath, funcName)}]

MarkActivityOp(r, pkgPath, funcName) ==
    [r EXCEPT !.ActivityFuncs = @ \cup {canonical(pkgPath, funcName)}]

\* CallGraph[e.Caller] = []string{e.Callee} instead of append
RECURSIVE AddEdgesCG_Overwrite(_, _)
AddEdgesCG_Overwrite(cg, edges) ==
    IF edges = <<>> THEN cg
    ELSE AddEdgesCG_Overwrite(MapSet(cg, Head(edges).Caller, <<Head(edges).Callee>>),
                              Tail(edges))

RECURSIVE AddEdgesCG(_, _)
AddEdgesCG(cg, edges) ==
    IF edges = <<>> THEN cg
    ELSE LET e == Head(edges)
         IN  AddEdgesCG(MapSet(cg, e.Caller, Append(Lookup(cg, e.Caller), e.Callee)),
                        Tail(edges))

AddEdgesOp(r, edges) == [r EXCEPT !.CallGraph = AddEdgesCG(@, edges)]

(***************************************************************************)
(* workflow_registry.go: IsWorkflowReachable / isReachableFrom             *)
(***************************************************************************)
\* the direct-call check run over every caller instead of the sources
isReachableFrom_AnyCaller(r, target, sources, visited) ==
    \E s \in DOMAIN r.CallGraph : target \in Range(r.CallGraph[s])

RECURSIVE isReachableFrom(_, _, _, _)
isReachableFrom(r, target, sources, visited) ==
    IF target \in visited THEN FALSE
    ELSE LET direct    == \E s \in sources : target \in Range(Lookup(r.CallGraph, s))
             nextLevel == UNION {Range(Lookup(r.CallGraph, s)) : s \in sources}
         IN  IF direct THEN TRUE
             ELSE IF nextLevel # {}
                  THEN isReachableFrom(r, target, nextLevel, visited \cup {target})
                  ELSE FALSE

\* without the "direct workflow function" shortcut
IsWorkflowReachable_NoShortcut(r, canonicalFuncName) ==
    isReachableFrom(r, canonicalFuncName, r.WorkflowFuncs, {})

IsWorkflowReachable(r, canonicalFuncName) ==
    IF canonicalFuncName \in r.WorkflowFuncs THEN TRUE
    ELSE isReachableFrom(r, canonicalFuncName, r.WorkflowFuncs, {})

(***************************************************************************)
(* workflow_registry.go: ReachableFromWorkflows / collectReachable         *)
(* The traversal state is the pair of maps (reach, visited).               *)
(***************************************************************************)
RECURSIVE collectReachable(_, _, _)
RECURSIVE collectCallees(_, _, _)

collectReachable(r, fn, st) ==
    IF fn \in st.visited THEN st
    ELSE collectCallees(r, Lookup(r.CallGraph, fn),
                        [reach |-> st.reach \cup {fn}, visited |-> st.visited \cup {fn}])

\* the `for _, callee := range wr.CallGraph[fn]` loop of collectReachable
collectCallees(r, callees, st) ==
    IF callees = <<>> THEN st
    ELSE IF Head(callees) \in r.ActivityFuncs
         THEN collectCallees(r, Tail(callees), st)
         ELSE collectCallees(r, Tail(callees), collectReachable(r, Head(callees), st))

\* seedOrder: the order in which `range wr.WorkflowFuncs` yields the keys
RECURSIVE collectSeeds(_, _, _)
collectSeeds(r, seedOrder, st) ==
    IF seedOrder = <<>> THEN st
    ELSE collectSeeds(r, Tail(seedOrder), collectReachable(r, Head(seedOrder), st))

ReachableFromWorkflows(r, seedOrder) ==
    collectSeeds(r, seedOrder, [reach |-> {}, visited |-> {}]).reach

(***************************************************************************)
(* workflow_registry.go: CallPathTo                                        *)
(* A queue item is [name, path]; nil is the empty sequence.                *)
(***************************************************************************)
\* a stack instead of a queue: depth-first
Enqueue_Front(q, item) == <<item>> \o q

\* q = append(q, next) at the tail of the FIFO queue
Enqueue(q, item) == Append(q, item)

\* the same loop without the skip of activity-classified callees
RECURSIVE scanCallees_NoPrune(_, _, _, _)
scanCallees_NoPrune(r, callees, cur, st) ==
    IF callees = <<>> THEN st
    ELSE LET callee == Head(callees)
         IN  IF callee \notin st.seen
             THEN scanCallees_NoPrune(r, Tail(callees), cur,
                      [q    |-> Enqueue(st.q, [name |-> callee,
                                               path |-> Append(cur.path, callee)]),
                       seen |-> st.seen \cup {callee}])
             ELSE scanCallees_NoPrune(r, Tail(callees), cur, st)

\* the same loop with the path of the queue item extended by the caller
RECURSIVE scanCallees_CallerHop(_, _, _, _)
scanCallees_CallerHop(r, callees, cur, st) ==
    IF callees = <<>> THEN st
    ELSE LET callee == Head(callees)
         IN  IF callee \in r.ActivityFuncs
             THEN scanCallees_CallerHop(r, Tail(callees), cur, st)
             ELSE IF callee \notin st.seen
                  THEN scanCallees_CallerHop(r, Tail(callees), cur,
                           [q    |-> Enqueue(st.q, [name |-> callee,
                                                    path |-> Append(cur.path, cur.name)]),
                            seen |-> st.seen \cup {callee}])
                  ELSE scanCallees_CallerHop(r, Tail(callees), cur, st)

\* the `for _, callee := range wr.CallGraph[cur.name]` loop: st = [q, seen]
RECURSIVE scanCallees(_, _, _, _)
scanCallees(r, callees, cur, st) ==
    IF callees = <<>> THEN st
    ELSE LET callee == Head(callees)
         IN  IF callee \in r.ActivityFuncs
             THEN scanCallees(r, Tail(callees), cur, st)
             ELSE IF callee \notin st.seen
                  THEN scanCallees(r, Tail(callees), cur,
                           [q    |-> Enqueue(st.q, [name |-> callee,
                                                    path |-> Append(cur.path, callee)]),
                            seen |-> st.seen \cup {callee}])
                  ELSE scanCallees(r, Tail(callees), cur, st)

\* the `for len(q) > 0` loop
RECURSIVE bfsLoop(_, _, _)
bfsLoop(r, target, st) ==
    IF st.q = <<>> THEN <<>>
    ELSE LET cur == Head(st.q)
         IN  IF cur.name = target THEN cur.path
             ELSE bfsLoop(r, target,
                          scanCallees(r, Lookup(r.CallGraph, cur.name), cur,
                                      [q |-> Tail(st.q), seen |-> st.seen]))

CallPathTo(r, seedOrder, target) ==
    bfsLoop(r, target,
            [q    |-> [i \in DOMAIN seedOrder |->
                          [name |-> seedOrder[i], path |-> <<seedOrder[i]>>]],
             seen |-> Range(seedOrder)])

(***************************************************************************)
(* workflow_registry.go: GetCallStack / findPath                           *)
(* The traversal state is [found, visited, path].                          *)
(***************************************************************************)
RECURSIVE findPath(_, _, _, _)
RECURSIVE findPathCallees(_, _, _, _)

findPath(r, from, to, st) ==
    IF from \in st.visited THEN [st EXCEPT !.found = FALSE]
    ELSE LET st1 == [found   |-> FALSE,
                     visited |-> st.visited \cup {from},
                     path    |-> Append(st.path, from)]
         IN  IF from = to THEN [st1 EXCEPT !.found = TRUE]
             ELSE LET st2 == findPathCallees(r, Lookup(r.CallGraph, from), to, st1)
                  IN  IF st2.found THEN st2
                      ELSE [st2 EXCEPT !.path = SubSeq(@, 1, Len(@) - 1)]

findPathCallees(r, callees, to, st) ==
    IF callees = <<>> THEN [st EXCEPT !.found = FALSE]
    ELSE LET st1 == findPath(r, Head(callees), to, st)
         IN  IF st1.found THEN st1
             ELSE findPathCallees(r, Tail(callees), to, st1)

GetCallStack(r, from, to) ==
    LET st == findPath(r, from, to, [found |-> FALSE, visited |-> {}, path |-> <<>>])
    IN  IF st.found THEN st.path ELSE <<>>

(***************************************************************************)
(* func_call_detector.go: createIssueIfInWorkflow                          *)
(* The issues appended for one rule match inside function currFunc.        *)
(***************************************************************************)
createIssueIfInWorkflow(r, seedOrder, pkgPath, currFunc, rule) ==
    LET canonicalCurrentFunc == pkgPath \o "." \o currFunc
    IN  IF IsWorkflowReachable(r, canonicalCurrentFunc)
        THEN <<[Rule      |-> rule,
                Func      |-> currFunc,
                CallStack |-> CallPathTo(r, seedOrder, canonicalCurrentFunc)]>>
        ELSE <<>>

(***************************************************************************)
(* Syntax trees (go/ast), as far as ProcessFile and BuildEdges read them.  *)
(* A file is the pre-order sequence of its top-level declarations.         *)
(*   FuncDecl: [kind |-> "func", Name, Params, Body, Calls]                *)
(*   GenDecl : [kind |-> "var", Calls]   (package-level initialisers)      *)
(* Params is the sequence of parameter type expressions, Calls the         *)
(* pre-order sequence of the call expressions below the declaration, and   *)
(* Body says whether the declaration has a body.                           *)
(***************************************************************************)
SelectorExpr(x, sel) == [kind |-> "sel", X |-> x, Sel |-> sel]
Ident(name)          == [kind |-> "ident", X |-> "", Sel |-> name]
OtherExpr            == [kind |-> "other", X |-> "", Sel |-> ""]

CallExpr(fun, args) == [Fun |-> fun, Args |-> args]

FuncDecl(name, params, calls) ==
    [kind |-> "func", Name |-> name, Params |-> params, Body |-> TRUE, Calls |-> calls]
FuncDeclNoBody(name, params) ==
    [kind |-> "func", Name |-> name, Params |-> params, Body |-> FALSE, Calls |-> <<>>]
GenDecl(calls) ==
    [kind |-> "var", Name |-> "", Params |-> <<>>, Body |-> FALSE, Calls |-> calls]

WorkflowCtx == SelectorExpr("workflow", "Context")
ContextCtx  == SelectorExpr("context", "Context")

(***************************************************************************)
(* callgraph_builder.go: BuildEdges                                        *)
(***************************************************************************)
\* a builder that resolves aliases through the import map only
RECURSIVE callEdges_NoFallback(_, _, _, _)
callEdges_NoFallback(caller, calls, pkgPath, importMap) ==
    IF calls = <<>> THEN <<>>
    ELSE LET call == Head(calls)
             rest == callEdges_NoFallback(caller, Tail(calls), pkgPath, importMap)
         IN  IF call.Fun.kind = "ident"
             THEN <<[Caller |-> caller, Callee |-> canonical(pkgPath, call.Fun.Sel)]>> \o rest
             ELSE IF call.Fun.kind = "sel"
                  THEN <<[Caller |-> caller,
                          Callee |-> canonical(LookupStr(importMap, call.Fun.X),
                                               call.Fun.Sel)]>> \o rest
                  ELSE rest

\* the inner ast.Inspect over fn.Body: one edge per call of a recognised shape
RECURSIVE callEdges(_, _, _, _)
callEdges(caller, calls, pkgPath, importMap) ==
    IF calls = <<>> THEN <<>>
    ELSE LET call == Head(calls)
             rest == callEdges(caller, Tail(calls), pkgPath, importMap)
         IN  IF call.Fun.kind = "ident"
             THEN <<[Caller |-> caller, Callee |-> canonical(pkgPath, call.Fun.Sel)]>> \o rest
             ELSE IF call.Fun.kind = "sel"
                  THEN LET alias == call.Fun.X
                           m     == LookupStr(importMap, alias)
                           imp   == IF m = "" THEN alias ELSE m
                       IN  <<[Caller |-> caller, Callee |-> canonical(imp, call.Fun.Sel)]>>
                           \o rest
                  ELSE rest

RECURSIVE BuildEdges(_, _, _)
BuildEdges(file, pkgPath, importMap) ==
    IF file = <<>> THEN <<>>
    ELSE LET fn == Head(file)
         IN  (IF fn.kind = "func" /\ fn.Body
              THEN callEdges(canonical(pkgPath, fn.Name), fn.Calls, pkgPath, importMap)
              ELSE <<>>)
             \o BuildEdges(Tail(file), pkgPath, importMap)

(***************************************************************************)
(* workflow_registry.go: ProcessFile                                       *)
(***************************************************************************)
\* the loop over fn.Type.Params.List
RECURSIVE classifyParams(_, _, _, _)
classifyParams(r, pkgPath, name, params) ==
    IF params = <<>> THEN r
    ELSE LET t  == Head(params)
             r1 == IF t.kind = "sel" /\ t.Sel = "Context"
                   THEN IF t.X = "workflow" THEN MarkWorkflowOp(r, pkgPath, name)
                        ELSE IF t.X = "context" THEN MarkActivityOp(r, pkgPath, name)
                        ELSE r
                   ELSE r
         IN  classifyParams(r1, pkgPath, name, Tail(params))

\* the same with the workflow function taken from the first argument
classifyCall_FirstArg(r, pkgPath, call) ==
    IF call.Fun.kind = "sel" /\ call.Fun.X = "workflow"
    THEN IF call.Fun.Sel \in {"Register", "RegisterWithOptions"}
         THEN IF Len(call.Args) = 2 /\ call.Args[1].kind = "ident"
              THEN MarkWorkflowOp(r, pkgPath, call.Args[1].Sel)
              ELSE r
         ELSE IF call.Fun.Sel \in {"RegisterActivity", "RegisterActivityWithOptions"}
              THEN IF Len(call.Args) >= 1 /\ call.Args[1].kind = "ident"
                   THEN MarkActivityOp(r, pkgPath, call.Args[1].Sel)
                   ELSE r
              ELSE r
    ELSE r

\* one *ast.CallExpr node: workflow.Register / workflow.RegisterActivity
classifyCall(r, pkgPath, call) ==
    IF call.Fun.kind = "sel" /\ call.Fun.X = "workflow"
    THEN IF call.Fun.Sel \in {"Register", "RegisterWithOptions"}
         THEN IF Len(call.Args) = 2 /\ call.Args[2].kind = "ident"
              THEN MarkWorkflowOp(r, pkgPath, call.Args[2].Sel)
              ELSE r
         ELSE IF call.Fun.Sel \in {"RegisterActivity", "RegisterActivityWithOptions"}
              THEN IF Len(call.Args) >= 1 /\ call.Args[1].kind = "ident"
                   THEN MarkActivityOp(r, pkgPath, call.Args[1].Sel)
                   ELSE r
              ELSE r
    ELSE r

RECURSIVE classifyCalls(_, _, _)
classifyCalls(r, pkgPath, calls) ==
    IF calls = <<>> THEN r
    ELSE classifyCalls(classifyCall(r, pkgPath, Head(calls)), pkgPath, Tail(calls))

\* step 1 of ProcessFile: the ast.Inspect that classifies
RECURSIVE classifyFile(_, _, _)
classifyFile(r, file, pkgPath) ==
    IF file = <<>> THEN r
    ELSE LET d  == Head(file)
             r1 == IF d.kind = "func"
                   THEN classifyParams(r, pkgPath, d.Name, d.Params)
                   ELSE r
             r2 == classifyCalls(r1, pkgPath, d.Calls)
         IN  classifyFile(r2, Tail(file), pkgPath)

ProcessFileOp(r, file, pkgPath, importMap) ==
    AddEdgesOp(classifyFile(r, file, pkgPath), BuildEdges(file, pkgPath, importMap))

(***************************************************************************)
(* The parsed files the model feeds to ProcessFile: [node, pkgPath,        *)
(* importMap], after testdata/callgraph_example.go and the registration    *)
(* calls ProcessFile recognises.  All are files of package Pkg.            *)
(***************************************************************************)
CadenceImports == [workflow |-> "go.uber.org/cadence/workflow"]

\* func W(ctx workflow.Context) { H1() };  func H1() { H2() }
WorkflowFile ==
    [node |-> << FuncDecl("W", <<WorkflowCtx, Ident("string")>>, <<CallExpr(Ident("H1"), <<>>)>>),
                 FuncDecl("H1", <<>>, <<CallExpr(Ident("H2"), <<>>)>>) >>,
     pkgPath |-> Pkg, importMap |-> CadenceImports]

\* func A(ctx context.Context) { H2() }
ActivityFile ==
    [node |-> << FuncDecl("A", <<ContextCtx>>, <<CallExpr(Ident("H2"), <<>>)>>) >>,
     pkgPath |-> Pkg, importMap |-> <<>>]

\* func W(ctx workflow.Context, c context.Context) {}
DualFile ==
    [node |-> << FuncDecl("W", <<WorkflowCtx, ContextCtx>>, <<>>) >>,
     pkgPath |-> Pkg, importMap |-> CadenceImports]

\* func W(ctx workflow.Context) {}
\* func init() { workflow.Register("w", H1); workflow.RegisterActivity(W); A() }
RegisterFile ==
    [node |-> << FuncDecl("W", <<WorkflowCtx>>, <<>>),
                 FuncDecl("init", <<>>,
                  << CallExpr(SelectorExpr("workflow", "Register"), <<OtherExpr, Ident("H1")>>),
                     CallExpr(SelectorExpr("workflow", "RegisterActivity"), <<Ident("W")>>),
                     CallExpr(Ident("A"), <<>>) >>) >>,
     pkgPath |-> Pkg, importMap |-> CadenceImports]

\* var x = H1();  func ext();  func init() { H2(); f.g()() }
InitFile ==
    [node |-> << GenDecl(<<CallExpr(Ident("H1"), <<>>)>>),
                 FuncDeclNoBody("ext", <<Ident("int")>>),
                 FuncDecl("init", <<>>,
                   << CallExpr(Ident("H2"), <<>>), CallExpr(OtherExpr, <<>>) >>) >>,
     pkgPath |-> Pkg, importMap |-> <<>>]

FilePool == <<WorkflowFile, ActivityFile, DualFile, RegisterFile, InitFile>>

(***************************************************************************)
(* State machines                                                          *)
(*   Spec      : any sequence of the registry's mutators                   *)
(*   SpecFiles : pass 1 over a set of files, one ProcessFile call per file, *)
(*               in any order                                              *)
(***************************************************************************)
EdgeCount(r) ==
    LET RECURSIVE Sum(_)
        Sum(S) == IF S = {} THEN 0
                  ELSE LET k == CHOOSE k \in S : TRUE
                       IN  Len(r.CallGraph[k]) + Sum(S \ {k})
    IN  Sum(DOMAIN r.CallGraph)

WithinBounds(r) == EdgeCount(r) <= MaxEdges

Edges == [Caller : Names, Callee : Names]

\* the subsystems a specification does not exercise stay idle
Idle == <<>>

Init ==
    /\ wr = NewWorkflowRegistry
    /\ processed = <<>>
    /\ mod = Idle
    /\ res = Idle
    /\ scan = Idle

MarkWorkflow(pkgPath, funcName) ==
    /\ wr' = MarkWorkflowOp(wr, pkgPath, funcName)
    /\ UNCHANGED <<processed, mod, res, scan>>

MarkActivity(pkgPath, funcName) ==
    /\ wr' = MarkActivityOp(wr, pkgPath, funcName)
    /\ UNCHANGED <<processed, mod, res, scan>>

AddEdges(edges) ==
    /\ WithinBounds(AddEdgesOp(wr, edges))
    /\ wr' = AddEdgesOp(wr, edges)
    /\ UNCHANGED <<processed, mod, res, scan>>

ProcessFile(pf) ==
    /\ WithinBounds(ProcessFileOp(wr, pf.node, pf.pkgPath, pf.importMap))
    /\ wr' = ProcessFileOp(wr, pf.node, pf.pkgPath, pf.importMap)
    /\ UNCHANGED <<processed, mod, res, scan>>

Next ==
    \/ \E f \in WorkflowNames : MarkWorkflow(Pkg, f)
    \/ \E f \in ActivityNames : MarkActivity(Pkg, f)
    \/ \E e \in Edges : AddEdges(<<e>>)
    \/ \E i \in DOMAIN FilePool : ProcessFile(FilePool[i])

Spec == Init /\ [][Next]_vars

\* pass 1: each file of the corpus is handed to ProcessFile once
ProcessFileOnce(i) ==
    /\ i \notin Range(processed)
    /\ wr' = ProcessFileOp(wr, FilePool[i].node, FilePool[i].pkgPath, FilePool[i].importMap)
    /\ processed' = Append(processed, i)
    /\ UNCHANGED <<mod, res, scan>>

NextFiles == \E i \in DOMAIN FilePool : ProcessFileOnce(i)

SpecFiles == Init /\ [][NextFiles]_vars

(***************************************************************************)
(* Graph notions the properties are stated with (defined on the registry   *)
(* as sets, independently of the traversals above)                         *)
(***************************************************************************)
Callees(r, n) == Range(Lookup(r.CallGraph, n))

\* every name the registry mentions, and one it does not
Universe(r) ==
    Names \cup r.WorkflowFuncs \cup r.ActivityFuncs \cup DOMAIN r.CallGraph
          \cup UNION {Callees(r, n) : n \in DOMAIN r.CallGraph} \cup {"q.unknown"}

\* successors of the set S along call edges; with prune, only along edges whose
\* callee is not activity-classified
Succ(r, S, prune) ==
    {c \in UNION {Callees(r, n) : n \in S} : ~prune \/ c \notin r.ActivityFuncs}

\* the least set containing S and closed under Succ
RECURSIVE Closure(_, _, _)
Closure(r, S, prune) ==
    LET T == S \cup Succ(r, S, prune)
    IN  IF T = S THEN S ELSE Closure(r, T, prune)

\* the workflow-classified functions and what they reach without entering an activity
PrunedReach(r) == Closure(r, r.WorkflowFuncs, TRUE)

\* what some workflow-classified function reaches along any call-graph path
AnyPathReach(r) == Closure(r, r.WorkflowFuncs, FALSE)

\* number of edges of a shortest pruned path from a workflow-classified node to f
\* (-1 when there is none)
RECURSIVE Dist(_, _, _, _)
Dist(r, f, S, k) ==
    IF f \in S THEN k
    ELSE LET T == S \cup Succ(r, S, TRUE)
         IN  IF T = S THEN 0 - 1 ELSE Dist(r, f, T, k + 1)

MinDist(r, f) == Dist(r, f, r.WorkflowFuncs, 0)

HasEdge(r, a, b) == b \in Callees(r, a)

W  == canonical(Pkg, "W")
H1 == canonical(Pkg, "H1")
H2 == canonical(Pkg, "H2")
A  == canonical(Pkg, "A")

(***************************************************************************)
(* Properties                                                              *)
(***************************************************************************)

\* C1: reflexivity.  In every registry state reachable by the mutators, every
\* workflow-classified function is answered workflow-reachable, also one that is
\* activity-classified as well and one that has no edges.
C1_Reflexivity ==
    \A f \in wr.WorkflowFuncs : IsWorkflowReachable(wr, f)

\* a function in both sets, without any edge from or to it, answered reachable
C1_Witness ==
    \E f \in wr.WorkflowFuncs \cap wr.ActivityFuncs :
        /\ Callees(wr, f) = {}
        /\ \A n \in DOMAIN wr.CallGraph : f \notin Callees(wr, n)
        /\ wr.CallGraph # <<>>
        /\ IsWorkflowReachable(wr, f)

\* C2: closure under non-activity edges.  For every edge a->b, if a is answered
\* workflow-reachable and b is not activity-classified then b is answered
\* workflow-reachable; in particular H2 in the chain W->H1->H2.
C2_Closure ==
    \A a \in DOMAIN wr.CallGraph : \A b \in Callees(wr, a) :
        (IsWorkflowReachable(wr, a) /\ b \notin wr.ActivityFuncs)
            => IsWorkflowReachable(wr, b)

\* C3: activity pruning.  A function that is activity-classified and not
\* workflow-classified is never answered workflow-reachable, and neither is a
\* function whose only paths from workflows enter an activity-classified node.
C3_ActivityPruning ==
    /\ \A b \in wr.ActivityFuncs \ wr.WorkflowFuncs : ~IsWorkflowReachable(wr, b)
    /\ \A f \in Universe(wr) \ PrunedReach(wr) : ~IsWorkflowReachable(wr, f)

\* C4: no workflow path means no finding.  If f is not workflow-classified and
\* no call-graph path leads from a workflow-classified node to f, then
\* IsWorkflowReachable(f) is false, CallPathTo(f) is empty and the
\* FuncCallDetector emits no issue for a call site inside f.
C4_NoPathNoFinding ==
    /\ \A f \in Universe(wr) \ AnyPathReach(wr) :
          /\ ~IsWorkflowReachable(wr, f)
          /\ \A o \in Orders(wr.WorkflowFuncs) : CallPathTo(wr, o, f) = <<>>
    /\ \A f \in FuncNames \cup {"unknown"} : \A o \in Orders(wr.WorkflowFuncs) :
          canonical(Pkg, f) \notin AnyPathReach(wr)
              => createIssueIfInWorkflow(wr, o, Pkg, f, "TimeUsage") = <<>>

\* Scenario B: a workflow exists, the activity A calls H2, nothing else does, and
\* no issue is emitted for a call site in H2
C4_Witness ==
    /\ W \in wr.WorkflowFuncs
    /\ A \in wr.ActivityFuncs \ wr.WorkflowFuncs
    /\ HasEdge(wr, A, H2)
    /\ Callees(wr, W) # {}
    /\ H2 \notin AnyPathReach(wr)
    /\ createIssueIfInWorkflow(wr, <<W>>, Pkg, "H2", "TimeUsage") = <<>>

\* C5: agreement of the two queries.  CallPathTo(f) is a path from a
\* workflow-classified node to f exactly when IsWorkflowReachable(f) is true, and
\* empty exactly when it is false; so every issue emitted for a rule match
\* carries a non-empty call path.
C5_Agreement ==
    \A f \in FuncNames \cup {"unknown"} : \A o \in Orders(wr.WorkflowFuncs) :
        LET p      == CallPathTo(wr, o, canonical(Pkg, f))
            issues == createIssueIfInWorkflow(wr, o, Pkg, f, "TimeUsage")
        IN  /\ IsWorkflowReachable(wr, canonical(Pkg, f)) <=> (p # <<>>)
            /\ p # <<>> => (p[1] \in wr.WorkflowFuncs /\ p[Len(p)] = canonical(Pkg, f))
            /\ \A i \in DOMAIN issues : issues[i].CallStack # <<>>

\* C6: shortest path.  A non-empty CallPathTo(f) has as many edges as a shortest
\* path from a workflow-classified node to f that enters no activity-classified
\* node, whatever the seed order; for exactly W->H1->H2 it is [W, H1, H2].
C6_ShortestPath ==
    /\ \A f \in Universe(wr) : \A o \in Orders(wr.WorkflowFuncs) :
          LET p == CallPathTo(wr, o, f)
          IN  p # <<>> => Len(p) - 1 = MinDist(wr, f)
    /\ (/\ wr.WorkflowFuncs = {W}
        /\ DOMAIN wr.CallGraph = {W, H1}
        /\ wr.CallGraph[W] = <<H1>> /\ wr.CallGraph[H1] = <<H2>>
        /\ wr.ActivityFuncs \cap {H1, H2} = {})
       => CallPathTo(wr, <<W>>, H2) = <<W, H1, H2>>

\* two seeds at different distances from the target: W->A->H2 and H1->H2
C6_Witness ==
    /\ wr.WorkflowFuncs = {W, H1}
    /\ wr.ActivityFuncs = {}
    /\ HasEdge(wr, W, A) /\ HasEdge(wr, A, H2) /\ HasEdge(wr, H1, H2)
    /\ CallPathTo(wr, <<W, H1>>, H2) = <<H1, H2>>

\* C7: path determinism (two evaluations of CallPathTo on the same registry, seed
\* order and callee order agree) is an equality of an operator with itself here.

\* f lies on a cycle of non-activity edges that a workflow-classified node calls into
OnCycleFromWorkflow(r, f) ==
    \E w \in r.WorkflowFuncs : \E c \in Succ(r, {w}, TRUE) :
        /\ f \in Closure(r, {c}, TRUE)
        /\ c \in Closure(r, Succ(r, {f}, TRUE), TRUE)

\* C8: termination on cycles.  On every call graph, cycles and self-loops
\* included, the four queries return, and every non-activity node of a cycle
\* entered from a workflow-classified node is answered reachable.
C8_CyclesAnswered ==
    \A f \in Universe(wr) :
        /\ \A g \in Universe(wr) : Len(GetCallStack(wr, f, g)) <= Cardinality(Universe(wr))
        /\ (OnCycleFromWorkflow(wr, f) /\ f \notin wr.ActivityFuncs) =>
              /\ IsWorkflowReachable(wr, f)
              /\ \A o \in Orders(wr.WorkflowFuncs) :
                    /\ CallPathTo(wr, o, f) # <<>>
                    /\ f \in ReachableFromWorkflows(wr, o)

IsPrefix(s, t) == Len(s) <= Len(t) /\ SubSeq(t, 1, Len(s)) = s

\* the registry r2 holds everything r holds: both sets and every callee list only grew
Grows(r, r2) ==
    /\ r.WorkflowFuncs \subseteq r2.WorkflowFuncs
    /\ r.ActivityFuncs \subseteq r2.ActivityFuncs
    /\ \A c \in DOMAIN r.CallGraph :
          c \in DOMAIN r2.CallGraph /\ IsPrefix(r.CallGraph[c], r2.CallGraph[c])

\* the file passes the function `name` to workflow.RegisterActivity
RegistersActivity(pf, name) ==
    \E i \in DOMAIN pf.node : \E j \in DOMAIN pf.node[i].Calls :
        LET c == pf.node[i].Calls[j]
        IN  /\ c.Fun \in {SelectorExpr("workflow", "RegisterActivity"),
                          SelectorExpr("workflow", "RegisterActivityWithOptions")}
            /\ Len(c.Args) >= 1
            /\ c.Args[1] = Ident(name)

\* the functions of the file with conflicting evidence
DualNames(pf) ==
    {canonical(pf.pkgPath, pf.node[i].Name) : i \in
        {i \in DOMAIN pf.node :
            /\ pf.node[i].kind = "func"
            /\ WorkflowCtx \in Range(pf.node[i].Params)
            /\ \/ ContextCtx \in Range(pf.node[i].Params)
               \/ RegistersActivity(pf, pf.node[i].Name)}}

\* C9: dual membership is preserved.  No mutator step removes a name from
\* either set or shortens or reorders a callee list, and a ProcessFile step on a
\* file with a function carrying both kinds of evidence leaves it in both sets.
C9_DualMembership ==
    [][/\ Grows(wr, wr')
       /\ \A i \in DOMAIN FilePool :
             wr' = ProcessFileOp(wr, FilePool[i].node, FilePool[i].pkgPath,
                                 FilePool[i].importMap)
                 => DualNames(FilePool[i]) \subseteq
                        (wr'.WorkflowFuncs \cap wr'.ActivityFuncs)]_vars

\* ProcessFile on WorkflowFile, then on DualFile: W is in both sets, edges are kept
C9_Witness ==
    /\ wr = ProcessFileOp(ProcessFileOp(NewWorkflowRegistry, WorkflowFile.node, Pkg,
                                        WorkflowFile.importMap),
                          DualFile.node, Pkg, DualFile.importMap)
    /\ W \in wr.WorkflowFuncs \cap wr.ActivityFuncs
    /\ DualNames(DualFile) = {W}
    /\ DualNames(RegisterFile) = {W}

\* ProcessFile over the files of FilePool in the given order, from a fresh registry
RECURSIVE FoldFiles(_, _)
FoldFiles(r, order) ==
    IF order = <<>> THEN r
    ELSE FoldFiles(ProcessFileOp(r, FilePool[Head(order)].node, FilePool[Head(order)].pkgPath,
                                 FilePool[Head(order)].importMap),
                   Tail(order))

\* the indices of S in ascending order
RECURSIVE Ascending(_)
Ascending(S) ==
    IF S = {} THEN <<>>
    ELSE LET m == CHOOSE m \in S : \A x \in S : m <= x
         IN  <<m>> \o Ascending(S \ {m})

SameBag(s, t) == \A x \in Range(s) \cup Range(t) : Count(s, x) = Count(t, x)

\* the two registries agree as far as order-independence promises
SameRegistry(r, c) ==
    /\ r.WorkflowFuncs = c.WorkflowFuncs
    /\ r.ActivityFuncs = c.ActivityFuncs
    /\ DOMAIN r.CallGraph = DOMAIN c.CallGraph
    /\ \A k \in DOMAIN r.CallGraph : SameBag(r.CallGraph[k], c.CallGraph[k])
    /\ \A f \in Universe(r) :
          /\ IsWorkflowReachable(r, f) <=> IsWorkflowReachable(c, f)
          /\ \A o1 \in Orders(r.WorkflowFuncs) : \A o2 \in Orders(c.WorkflowFuncs) :
                (CallPathTo(r, o1, f) = <<>>) <=> (CallPathTo(c, o2, f) = <<>>)

\* C10: order-independent accumulation.  Whatever order ProcessFile was called in
\* on a set of files, the registry agrees with the one built in ascending order:
\* same sets, same multiset of callees per caller, same reachability answers.
C10_OrderIndependent ==
    SameRegistry(wr, FoldFiles(NewWorkflowRegistry, Ascending(Range(processed))))

\* all files processed in an order that leaves a callee list ordered differently
C10_Witness ==
    /\ Len(processed) = Len(FilePool)
    /\ processed # Ascending(Range(processed))
    /\ wr.CallGraph # FoldFiles(NewWorkflowRegistry, Ascending(Range(processed))).CallGraph

(***************************************************************************)
(* Go strings.  A path is a sequence of one-character strings, so that     *)
(* strings.HasPrefix, strings.Contains, strings.Split and filepath.Rel are *)
(* decided character by character.                                         *)
(***************************************************************************)
Alphabet == {"a", "b", "/"}
MaxModLen == 3      \* longest module path of a ModuleInfo
MaxPathLen == 4     \* longest package path asked about
MaxReplaces == 2    \* most replace directives of a ModuleInfo

Slash == <<"/">>
Dot == <<".">>

\* all strings over Alphabet of length at most n
RECURSIVE Strings(_)
Strings(n) ==
    IF n = 0 THEN {<<>>}
    ELSE LET S == Strings(n - 1)
         IN  S \cup {Append(s, c) : s \in {t \in S : Len(t) = n - 1}, c \in Alphabet}

\* the string as Go prints it
RECURSIVE StrOf(_)
StrOf(s) == IF s = <<>> THEN "" ELSE Head(s) \o StrOf(Tail(s))

HasPrefix(s, prefix) ==
    Len(prefix) <= Len(s) /\ SubSeq(s, 1, Len(prefix)) = prefix

Contains(s, substr) ==
    \E i \in 1..(Len(s) - Len(substr) + 1) : SubSeq(s, i, i + Len(substr) - 1) = substr

\* strings.Split(s, sep) for a one-character separator
RECURSIVE SplitFrom(_, _, _)
SplitFrom(s, sep, cur) ==
    IF s = <<>> THEN <<cur>>
    ELSE IF <<Head(s)>> = sep THEN <<cur>> \o SplitFrom(Tail(s), sep, <<>>)
    ELSE SplitFrom(Tail(s), sep, Append(cur, Head(s)))

Split(s, sep) == SplitFrom(s, sep, <<>>)

RECURSIVE Join(_, _)
Join(elems, sep) ==
    IF elems = <<>> THEN <<>>
    ELSE IF Len(elems) = 1 THEN elems[1]
    ELSE elems[1] \o sep \o Join(Tail(elems), sep)

(***************************************************************************)
(* analyzer/modutils: ModuleInfo and its two questions                     *)
(***************************************************************************)
ReplaceDirective(oldPath, newPath) == [OldPath |-> oldPath, NewPath |-> newPath]

ModuleInfo(modulePath, replaces, rootDir) ==
    [ModulePath |-> modulePath, Replaces |-> replaces, RootDir |-> rootDir]

\* the same without the "/" after the module path
IsInternalPackage_TextPrefix(m, packagePath) ==
    IF m.ModulePath = <<>> THEN FALSE
    ELSE packagePath = m.ModulePath \/ HasPrefix(packagePath, m.ModulePath)

IsInternalPackage(m, packagePath) ==
    IF m.ModulePath = <<>> THEN FALSE
    ELSE packagePath = m.ModulePath \/ HasPrefix(packagePath, m.ModulePath \o Slash)

\* the loop of IsReplacedPackage from directive i on
RECURSIVE isReplacedFrom(_, _, _)
isReplacedFrom(replaces, i, packagePath) ==
    IF i > Len(replaces) THEN <<FALSE, <<>>>>
    ELSE IF \/ packagePath = replaces[i].OldPath
            \/ HasPrefix(packagePath, replaces[i].OldPath \o Slash)
         THEN <<TRUE, replaces[i].NewPath>>
         ELSE isReplacedFrom(replaces, i + 1, packagePath)

\* the same loop run over the directives in reverse
IsReplacedPackage_LastWins(m, packagePath) ==
    isReplacedFrom([i \in DOMAIN m.Replaces |-> m.Replaces[Len(m.Replaces) + 1 - i]],
                   1, packagePath)

IsReplacedPackage(m, packagePath) == isReplacedFrom(m.Replaces, 1, packagePath)

(***************************************************************************)
(* SpecModule: a ModuleInfo as ParseGoMod can leave it (the module path is *)
(* empty when go.mod has no module line) is asked one question             *)
(***************************************************************************)
ReplacePool ==
    { ReplaceDirective(<<"a">>, <<"x">>),
      ReplaceDirective(<<"a", "/", "b">>, <<".", "/", "l">>),
      ReplaceDirective(<<"a", "b">>, <<"y", "/", "z">>),
      ReplaceDirective(<<"a">>, <<"w">>) }

ReplaceLists == UNION {[1..n -> ReplacePool] : n \in 0..MaxReplaces}

ModuleRoot == <<"/", "r">>

ModuleInfos ==
    {ModuleInfo(m, <<>>, ModuleRoot) : m \in Strings(MaxModLen)}
        \cup {ModuleInfo(<<"a", "/", "b">>, r, ModuleRoot) : r \in ReplaceLists}

\* the package paths asked about: every short string, and the path of the
\* documented example that shares only a textual prefix with module a/b
PackagePaths == Strings(MaxPathLen) \cup {<<"a", "/", "b", "c">>}

InitModule ==
    /\ wr = NewWorkflowRegistry
    /\ processed = <<>>
    /\ res = Idle
    /\ scan = Idle
    /\ mod \in {[info |-> m, asked |-> "none", packagePath |-> <<>>,
                 internal |-> FALSE, replaced |-> <<FALSE, <<>>>>] : m \in ModuleInfos}

AskInternal(packagePath) ==
    /\ mod.asked = "none"
    /\ mod' = [mod EXCEPT !.asked = "internal", !.packagePath = packagePath,
                          !.internal = IsInternalPackage(mod.info, packagePath)]
    /\ UNCHANGED <<wr, processed, res, scan>>

AskReplaced(packagePath) ==
    /\ mod.asked = "none"
    /\ mod' = [mod EXCEPT !.asked = "replaced", !.packagePath = packagePath,
                          !.replaced = IsReplacedPackage(mod.info, packagePath)]
    /\ UNCHANGED <<wr, processed, res, scan>>

NextModule ==
    \/ \E p \in PackagePaths : AskInternal(p)
    \/ \E p \in PackagePaths : AskReplaced(p)

SpecModule == InitModule /\ [][NextModule]_vars

\* the words of the documentation: equal to, or "/"-prefixed by, the old path
SlashPrefixed(p, base) == p = base \/ HasPrefix(p, base \o Slash)

\* the same read on path segments: the segments of base begin those of p
SegmentPrefixed(p, base) == IsPrefix(Split(base, Slash), Split(p, Slash))

\* C14 as stated: IsInternalPackage(p) is true if and only if p equals the module
\* path or begins with the module path followed by "/".
C14_Original ==
    mod # Idle /\ mod.asked = "internal"
        => (mod.internal <=> SlashPrefixed(mod.packagePath, mod.info.ModulePath))

\* C14: IsInternalPackage(p) is true if and only if the module path is not empty
\* and p equals it or begins with it followed by "/" (segment-wise: the module
\* path's segments begin p's); with an empty module path no p is internal, and a
\* path that only shares a textual prefix with the module path is not internal.
C14_InternalIff ==
    mod # Idle /\ mod.asked = "internal"
        => LET m == mod.info.ModulePath
               p == mod.packagePath
           IN  /\ m # <<>> => (mod.internal <=> SlashPrefixed(p, m))
               /\ m # <<>> => (mod.internal <=> SegmentPrefixed(p, m))
               /\ m = <<>> => ~mod.internal
               /\ (HasPrefix(p, m) /\ p # m /\ p[Len(m) + 1] # "/") => ~mod.internal

\* module a/b is asked about a/bc and answers no
C14_Witness ==
    /\ mod # Idle /\ mod.asked = "internal"
    /\ mod.info.ModulePath = <<"a", "/", "b">>
    /\ mod.packagePath = <<"a", "/", "b", "c">>
    /\ ~mod.internal

\* the directives of the ModuleInfo whose old path equals p or "/"-prefixes it
MatchingDirectives(m, p) ==
    {i \in DOMAIN m.Replaces : SegmentPrefixed(p, m.Replaces[i].OldPath)}

\* C15: IsReplacedPackage(p) returns (true, NewPath) of the earliest declared
\* directive whose OldPath equals p or is a "/"-segment prefix of p, and
\* (false, "") when no directive matches.
C15_FirstMatchWins ==
    mod # Idle /\ mod.asked = "replaced"
        => LET M == MatchingDirectives(mod.info, mod.packagePath)
           IN  IF M = {} THEN mod.replaced = <<FALSE, <<>>>>
               ELSE LET first == CHOOSE i \in M : \A j \in M : i <= j
                    IN  mod.replaced = <<TRUE, mod.info.Replaces[first].NewPath>>

\* two directives with different new paths match; the earlier one is returned
C15_Witness ==
    /\ mod # Idle /\ mod.asked = "replaced"
    /\ LET M == MatchingDirectives(mod.info, mod.packagePath)
           R == mod.info.Replaces
       IN  /\ M = {1, 2}
           /\ R[1].NewPath # R[2].NewPath
           /\ mod.replaced = <<TRUE, R[1].NewPath>>

(***************************************************************************)
(* path/filepath on clean Unix paths, and the part of the file system the  *)
(* resolver looks at: the working directory and the go.mod files           *)
(***************************************************************************)
IsAbs(path) == path # <<>> /\ Head(path) = "/"

\* filepath.Join of a directory and a relative path below it
JoinPath(dir, name) ==
    IF name = Dot \/ name = <<>> THEN dir
    ELSE IF dir = Dot \/ dir = <<>> THEN name
    ELSE IF dir = Slash THEN dir \o name
    ELSE dir \o Slash \o name

\* index of the last "/" of the path, 0 when it has none
LastSlash(path) ==
    LET I == {i \in DOMAIN path : path[i] = "/"}
    IN  IF I = {} THEN 0 ELSE CHOOSE i \in I : \A j \in I : j <= i

Dir(path) ==
    LET i == LastSlash(path)
    IN  IF i = 0 THEN Dot
        ELSE IF i = 1 THEN Slash
        ELSE SubSeq(path, 1, i - 1)

\* the elements of a path; an absolute path starts with the empty element
Elems(path) ==
    IF path = <<>> \/ path = Dot THEN <<>>
    ELSE IF path = Slash THEN << <<>> >>
    ELSE Split(path, Slash)

\* number of leading elements two element lists share
RECURSIVE CommonLen(_, _)
CommonLen(bs, ts) ==
    IF bs = <<>> \/ ts = <<>> \/ Head(bs) # Head(ts) THEN 0
    ELSE 1 + CommonLen(Tail(bs), Tail(ts))

\* filepath.Rel: fails when only one of the two paths is absolute
Rel(basepath, targpath) ==
    IF targpath = basepath THEN [err |-> FALSE, rel |-> Dot]
    ELSE IF IsAbs(basepath) # IsAbs(targpath) THEN [err |-> TRUE, rel |-> <<>>]
    ELSE LET bs == Elems(basepath)
             ts == Elems(targpath)
             k  == CommonLen(bs, ts)
             ups == [i \in 1..(Len(bs) - k) |-> <<".", ".">>]
         IN  [err |-> FALSE, rel |-> Join(ups \o SubSeq(ts, k + 1, Len(ts)), Slash)]

\* filepath.Abs
Abs(fs, path) == IF IsAbs(path) THEN path ELSE JoinPath(fs.cwd, path)

\* a go.mod file: whether it can be read to the end, and what it declares
GoModFile(readable, modulePath, replaces) ==
    [readable |-> readable, ModulePath |-> modulePath, Replaces |-> replaces]

GoModName == <<"g", "o", ".", "m", "o", "d">>

\* a round that goes on to the parent without comparing it to the directory
findGoModRound_NoRootCheck(fs, currentDir) ==
    IF currentDir \in DOMAIN fs.goMod
    THEN [done |-> TRUE, err |-> FALSE, path |-> JoinPath(currentDir, GoModName),
          currentDir |-> currentDir]
    ELSE [done |-> FALSE, err |-> FALSE, path |-> <<>>, currentDir |-> Dir(currentDir)]

\* one round of the `for` loop of FindGoMod: os.Stat of currentDir/go.mod,
\* then the step to the parent or the break at the root
findGoModRound(fs, currentDir) ==
    IF currentDir \in DOMAIN fs.goMod
    THEN [done |-> TRUE, err |-> FALSE, path |-> JoinPath(currentDir, GoModName),
          currentDir |-> currentDir]
    ELSE LET parent == Dir(currentDir)
         IN  IF parent = currentDir
             THEN [done |-> TRUE, err |-> TRUE, path |-> <<>>, currentDir |-> currentDir]
             ELSE [done |-> FALSE, err |-> FALSE, path |-> <<>>, currentDir |-> parent]

\* the walk of FindGoMod from currentDir up to the root
RECURSIVE findGoModFrom(_, _)
findGoModFrom(fs, currentDir) ==
    LET round == findGoModRound(fs, currentDir)
    IN  IF round.done THEN [err |-> round.err, path |-> round.path]
        ELSE findGoModFrom(fs, round.currentDir)

FindGoMod(fs, startDir) == findGoModFrom(fs, Abs(fs, startDir))

NilModuleInfo == <<>>

\* ParseGoMod: an error when the file cannot be opened or read, else what its
\* directives declare, with RootDir the directory of the file
ParseGoMod(fs, goModPath) ==
    LET f == fs.goMod[Dir(goModPath)]
    IN  IF ~f.readable THEN [err |-> TRUE, info |-> NilModuleInfo]
        ELSE [err |-> FALSE,
              info |-> ModuleInfo(f.ModulePath, f.Replaces, Dir(goModPath))]

(***************************************************************************)
(* analyzer/scanner.go: PackageResolver                                    *)
(***************************************************************************)
NewPackageResolver(fs, baseDir) ==
    LET found == FindGoMod(fs, baseDir)
    IN  IF found.err THEN [baseDir |-> baseDir, moduleInfo |-> NilModuleInfo]
        ELSE LET parsed == ParseGoMod(fs, found.path)
             IN  IF parsed.err THEN [baseDir |-> baseDir, moduleInfo |-> NilModuleInfo]
                 ELSE [baseDir |-> baseDir, moduleInfo |-> parsed.info]

\* an *ast.File: the package clause, the import specs and the declarations
NilName == <<>>
AstFile(name, imports, decls) == [Name |-> name, Imports |-> imports, Decls |-> decls]

Testdata == <<"t", "e", "s", "t", "d", "a", "t", "a">>
ModSegment == <<"m", "o", "d">>
LintTestPrefix == <<"e", "x", "a", "m", "p", "l", "e", ".", "c", "o", "m", "/", "l", "i", "n", "t", "t", "e", "s", "t", "/">>
TestdataPrefix == <<"t", "e", "s", "t", "d", "a", "t", "a", "/">>
ProjectPath == <<"g", "i", "t", "h", "u", "b", ".", "c", "o", "m", "/", "a", "f", "o", "n", "y", "1", "0", "/", "c", "a", "d", "e", "n", "c", "e", "-", "w", "o", "r", "k", "f", "l", "o", "w", "-", "l", "i", "n", "t", "e", "r">>
MainPkg == <<"m", "a", "i", "n">>
LocalPkg == <<"l", "o", "c", "a", "l">>

\* the three strategies of computePackagePath, each as the code writes it
fixturePath(pr, filePath, pkgName) ==
    LET r == Rel(pr.baseDir, Dir(filePath))
        parts == Split(r.rel, Slash)
    IN  IF /\ Contains(filePath, Slash \o ModSegment \o Slash)
           /\ ~r.err
           /\ Len(parts) >= 2
           /\ parts[1] = ModSegment
        THEN LintTestPrefix \o Join(Tail(parts), Slash)
        ELSE TestdataPrefix \o pkgName

goModPath(pr, filePath, pkgName) ==
    LET modulePath == pr.moduleInfo.ModulePath
        r == Rel(pr.moduleInfo.RootDir, Dir(filePath))
    IN  IF pkgName = MainPkg THEN modulePath
        ELSE IF ~r.err /\ r.rel # Dot THEN modulePath \o Slash \o r.rel
        ELSE modulePath

heuristicPath(pr, filePath, pkgName) ==
    LET r == Rel(pr.baseDir, Dir(filePath))
    IN  IF pkgName = MainPkg THEN ProjectPath
        ELSE IF ~r.err /\ r.rel # Dot THEN ProjectPath \o Slash \o r.rel
        ELSE pkgName

\* the same with the go.mod branch tried before the testdata branch
computePackagePath_GoModFirst(pr, filePath, node) ==
    LET pkgName == IF node.Name # NilName THEN node.Name ELSE LocalPkg
    IN  IF pr.moduleInfo # NilModuleInfo THEN goModPath(pr, filePath, pkgName)
        ELSE IF Contains(filePath, Testdata) THEN fixturePath(pr, filePath, pkgName)
        ELSE heuristicPath(pr, filePath, pkgName)

computePackagePath(pr, filePath, node) ==
    LET pkgName == IF node.Name # NilName THEN node.Name ELSE LocalPkg
    IN  IF Contains(filePath, Testdata) THEN fixturePath(pr, filePath, pkgName)
        ELSE IF pr.moduleInfo # NilModuleInfo THEN goModPath(pr, filePath, pkgName)
        ELSE heuristicPath(pr, filePath, pkgName)

\* a call that also moves the resolver's base directory to the file's directory
computePackagePathCall_Rebase(pr, filePath, node) ==
    [pr   |-> [pr EXCEPT !.baseDir = Dir(filePath)],
     path |-> computePackagePath(pr, filePath, node)]

\* one call of the method on the resolver pr points to: the resolver after the
\* call (the method assigns to no field) and the string returned
computePackagePathCall(pr, filePath, node) ==
    [pr |-> pr, path |-> computePackagePath(pr, filePath, node)]

(***************************************************************************)
(* SpecResolver: a resolver is made for a scan target by                   *)
(* NewPackageResolver and computePackagePath is called on files below the  *)
(* target, any file any number of times                                    *)
(***************************************************************************)
MaxCalls == 2       \* computePackagePath calls on one resolver

Cwd == <<"/", "r">>
ExampleModule == <<"e", "x", "a", "m", "p", "l", "e", ".", "c", "o", "m", "/", "p", "r", "o", "j", "e", "c", "t">>

\* go.mod in the working directory: none, one that cannot be read, or one
\* that declares ExampleModule
GoModStates == {"absent", "unreadable", "present"}

FileSystem(gm) ==
    [cwd   |-> Cwd,
     goMod |-> IF gm = "absent" THEN <<>>
               ELSE [d \in {Cwd} |-> GoModFile(gm = "present", ExampleModule, <<>>)]]

\* the directories handed to ScanDirectory: the project root by its absolute
\* path, the same as "." and the fixture directory of the project
Targets == {<<"/", "r">>, <<".">>, <<"/", "r", "/", "t", "e", "s", "t", "d", "a", "t", "a">>}

SourceFile(path, name) == [path |-> path, node |-> AstFile(name, <<>>, <<>>)]

\* the Go files below the project root, with their package clauses
ProjectFiles ==
    { SourceFile(<<"m", "a", "i", "n", ".", "g", "o">>, <<"m", "a", "i", "n">>),
      SourceFile(<<"s", "u", "b", "/", "p", "k", "g", "/", "f", ".", "g", "o">>, <<"p", "k", "g">>),
      SourceFile(<<"c", "m", "d", "/", "a", "/", "m", "a", "i", "n", ".", "g", "o">>, <<"m", "a", "i", "n">>),
      SourceFile(<<"c", "m", "d", "/", "b", "/", "m", "a", "i", "n", ".", "g", "o">>, <<"m", "a", "i", "n">>),
      SourceFile(<<"l", "i", "b", "/", "f", ".", "g", "o">>, <<"l", "i", "b">>),
      SourceFile(<<"t", "e", "s", "t", "d", "a", "t", "a", "/", "a", "/", "f", ".", "g", "o">>, <<"p">>),
      SourceFile(<<"t", "e", "s", "t", "d", "a", "t", "a", "/", "b", "/", "f", ".", "g", "o">>, <<"p">>),
      SourceFile(<<"t", "e", "s", "t", "d", "a", "t", "a", "/", "m", "o", "d", "/", "p", "k", "g", "u", "t", "i", "l", "/", "u", ".", "g", "o">>, <<"p", "k", "g", "u", "t", "i", "l">>) }

\* the Go files below the fixture directory
FixtureFiles ==
    { SourceFile(<<"a", "/", "f", ".", "g", "o">>, <<"p">>),
      SourceFile(<<"m", "o", "d", "/", "u", ".", "g", "o">>, <<"u">>),
      SourceFile(<<"m", "o", "d", "/", "p", "k", "g", "u", "t", "i", "l", "/", "u", ".", "g", "o">>, <<"p", "k", "g", "u", "t", "i", "l">>) }

\* the paths filepath.Walk(target) hands to addFile
WalkFiles(target) ==
    LET below == IF target = <<"/", "r", "/", "t", "e", "s", "t", "d", "a", "t", "a">> THEN FixtureFiles ELSE ProjectFiles
    IN  {[f EXCEPT !.path = JoinPath(target, f.path)] : f \in below}

InitResolver ==
    /\ wr = NewWorkflowRegistry
    /\ processed = <<>>
    /\ mod = Idle
    /\ scan = Idle
    /\ \E gm \in GoModStates : \E target \in Targets :
          res = [fs |-> FileSystem(gm), target |-> target,
                 resolver |-> NewPackageResolver(FileSystem(gm), target),
                 log |-> <<>>]

Resolve(f) ==
    /\ Len(res.log) < MaxCalls
    /\ LET c == computePackagePathCall(res.resolver, f.path, f.node)
       IN  res' = [res EXCEPT !.resolver = c.pr,
                              !.log = Append(@, [filePath |-> f.path, node |-> f.node,
                                                 path |-> c.path, pr |-> c.pr])]
    /\ UNCHANGED <<wr, processed, mod, scan>>

NextResolver == \E f \in WalkFiles(res.target) : Resolve(f)

SpecResolver == InitResolver /\ [][NextResolver]_vars

\* the directory a file is in, as an absolute path
Location(fs, filePath) == Abs(fs, Dir(filePath))

\* the file lies in a test-fixture layout: "testdata" occurs in its path
InFixtureLayout(fs, filePath) == Contains(Abs(fs, filePath), Testdata)

\* C16: with a ModuleInfo and outside a test-fixture layout, a file in directory
\* <root>/d1/.../dn resolves to modulePath + "/d1/.../dn" whatever its package
\* name, and a file directly in <root> resolves to modulePath.
C16_ManifestPath ==
    res # Idle =>
        \A i \in DOMAIN res.log :
            LET e == res.log[i]
                m == e.pr.moduleInfo
            IN  (m # NilModuleInfo /\ ~InFixtureLayout(res.fs, e.filePath))
                    => LET sub == Rel(m.RootDir, Location(res.fs, e.filePath)).rel
                       IN  e.path = IF sub = Dot THEN m.ModulePath
                                    ELSE m.ModulePath \o Slash \o sub

\* C17: two functions of the same name declared in files of different
\* directories get different registry keys.
C17_UniqueKeys ==
    res # Idle =>
        \A i, j \in DOMAIN res.log :
            Location(res.fs, res.log[i].filePath) # Location(res.fs, res.log[j].filePath)
                => canonical(StrOf(res.log[i].path), "F")
                       # canonical(StrOf(res.log[j].path), "F")

\* the path has one of the two forms the fixture strategy builds
FixtureForm(path) == HasPrefix(path, TestdataPrefix) \/ HasPrefix(path, LintTestPrefix)

\* the path is the module path or lies below it
ManifestForm(m, path) == SlashPrefixed(path, m.ModulePath)

\* the path is the hardcoded project path or lies below it
HeuristicForm(path) == SlashPrefixed(path, ProjectPath)

\* the heuristic has something to go by: package main, or a file in a
\* directory below the base directory
HeuristicApplies(pr, e) ==
    \/ e.node.Name = MainPkg
    \/ /\ Dir(e.filePath) # pr.baseDir
       /\ IsPrefix(Elems(pr.baseDir), Elems(Dir(e.filePath)))

MaxClassified == 2  \* ProcessFile calls in one run

ClassifyNames == {"F", "G"}

\* parameter lists: none, each context type alone, behind another parameter,
\* both, the same selector names under another package or type name, and a
\* type that is no selector (such as *workflow.Context)
ParamLists ==
    { <<>>, <<WorkflowCtx>>, <<ContextCtx>>,
      <<Ident("string"), WorkflowCtx>>, <<WorkflowCtx, ContextCtx>>,
      <<SelectorExpr("wf", "Context")>>, <<SelectorExpr("workflow", "Info")>>,
      <<OtherExpr>> }

\* calls that mention the function f
RegistrationCalls(f) ==
    { CallExpr(SelectorExpr("workflow", "Register"), <<OtherExpr, Ident(f)>>),
      CallExpr(SelectorExpr("workflow", "RegisterWithOptions"), <<OtherExpr, Ident(f)>>),
      CallExpr(SelectorExpr("workflow", "Register"), <<Ident(f)>>),
      CallExpr(SelectorExpr("workflow", "RegisterWithOptions"), <<Ident(f), Ident("opts")>>),
      CallExpr(SelectorExpr("workflow", "Register"), <<OtherExpr, Ident(f), OtherExpr>>),
      CallExpr(SelectorExpr("workflow", "Register"), <<OtherExpr, SelectorExpr("q", f)>>),
      CallExpr(SelectorExpr("workflow", "RegisterActivity"), <<Ident(f)>>),
      CallExpr(SelectorExpr("workflow", "RegisterActivityWithOptions"), <<Ident(f), OtherExpr>>),
      CallExpr(SelectorExpr("workflow", "RegisterActivity"), <<OtherExpr, Ident(f)>>),
      CallExpr(SelectorExpr("workflow", "RegisterActivity"), <<>>),
      CallExpr(SelectorExpr("worker", "Register"), <<OtherExpr, Ident(f)>>),
      CallExpr(SelectorExpr("workflow", "ExecuteActivity"), <<OtherExpr, Ident(f)>>),
      CallExpr(Ident(f), <<>>) }

ClassifyPool ==
    {[node |-> <<FuncDecl(f, ps, <<>>)>>, pkgPath |-> Pkg, importMap |-> CadenceImports] :
        f \in ClassifyNames, ps \in ParamLists}
    \cup {[node |-> <<FuncDeclNoBody(f, <<WorkflowCtx>>)>>, pkgPath |-> Pkg,
           importMap |-> CadenceImports] : f \in ClassifyNames}
    \cup {[node |-> <<FuncDecl("init", <<>>, <<c>>)>>, pkgPath |-> Pkg,
           importMap |-> CadenceImports] : c \in UNION {RegistrationCalls(f) : f \in ClassifyNames}}
    \cup {[node |-> <<GenDecl(<<c>>)>>, pkgPath |-> Pkg, importMap |-> CadenceImports] :
           c \in {CallExpr(SelectorExpr("workflow", "Register"), <<OtherExpr, Ident(f)>>) :
                    f \in ClassifyNames}}

ClassifyFile(pf) ==
    /\ Len(processed) < MaxClassified
    /\ wr' = ProcessFileOp(wr, pf.node, pf.pkgPath, pf.importMap)
    /\ processed' = Append(processed, pf)
    /\ UNCHANGED <<mod, res, scan>>

NextClassify == \E pf \in ClassifyPool : ClassifyFile(pf)

SpecClassify == Init /\ [][NextClassify]_vars

\* the call expressions of a file
CallsOf(pf) == UNION {Range(pf.node[i].Calls) : i \in DOMAIN pf.node}

\* the functions of a file the rules make workflow functions
RuleWorkflows(pf) ==
    {pf.node[i].Name : i \in {j \in DOMAIN pf.node :
        pf.node[j].kind = "func" /\ WorkflowCtx \in Range(pf.node[j].Params)}}
    \cup {c.Args[2].Sel : c \in {d \in CallsOf(pf) :
        /\ d.Fun \in {SelectorExpr("workflow", "Register"),
                      SelectorExpr("workflow", "RegisterWithOptions")}
        /\ Len(d.Args) = 2
        /\ d.Args[2].kind = "ident"}}

\* the functions of a file the rules make activity functions
RuleActivities(pf) ==
    {pf.node[i].Name : i \in {j \in DOMAIN pf.node :
        pf.node[j].kind = "func" /\ ContextCtx \in Range(pf.node[j].Params)}}
    \cup {c.Args[1].Sel : c \in {d \in CallsOf(pf) :
        /\ d.Fun \in {SelectorExpr("workflow", "RegisterActivity"),
                      SelectorExpr("workflow", "RegisterActivityWithOptions")}
        /\ Len(d.Args) >= 1
        /\ d.Args[1].kind = "ident"}}

Text(ident) ==
    CASE ident = "workflow" -> <<"w", "o", "r", "k", "f", "l", "o", "w">>
      [] ident = "time"     -> <<"t", "i", "m", "e">>
      [] ident = "external" -> <<"e", "x", "t", "e", "r", "n", "a", "l">>
      [] ident = "registry" -> <<"r", "e", "g", "i", "s", "t", "r", "y">>
      [] ident = "helpers"  -> <<"h", "e", "l", "p", "e", "r", "s">>
      [] ident = "uuid"     -> <<"u", "u", "i", "d">>
      [] OTHER              -> <<"c", "t", "x">>

FunctionRule(package, functions, rule) ==
    [Package |-> package, Functions |-> functions, Rule |-> rule]

\* importPath -> funcName -> rule; a later rule overwrites an earlier one
ruleSet(rules) ==
    [p \in {rules[i].Package : i \in DOMAIN rules} |->
        [f \in UNION {rules[i].Functions : i \in {j \in DOMAIN rules : rules[j].Package = p}} |->
            LET I == {i \in DOMAIN rules : rules[i].Package = p /\ f \in rules[i].Functions}
            IN  rules[CHOOSE i \in I : \A j \in I : j <= i].Rule]]

NewFuncCallDetector(rules, externalRules, safeExternalPkgs, moduleInfo) ==
    [safeExternalPkgs |-> safeExternalPkgs,
     moduleInfo       |-> moduleInfo,
     functionSet      |-> ruleSet(rules),
     externalFuncSet  |-> ruleSet(externalRules)]

isSafeExternalPackage(d, importPath) ==
    \E i \in DOMAIN d.safeExternalPkgs :
        \/ importPath = d.safeExternalPkgs[i]
        \/ HasPrefix(importPath, d.safeExternalPkgs[i] \o Slash)

IsLocalPath(newPath) ==
    ~Contains(newPath, Slash) \/ HasPrefix(newPath, <<".", "/">>) \/ HasPrefix(newPath, <<".", ".", "/">>)

\* the same without the hardcoded project path
isInternalPackage_NoFallback(d, importPath) ==
    \/ /\ d.moduleInfo # NilModuleInfo
       /\ \/ IsInternalPackage(d.moduleInfo, importPath)
          \/ LET rep == IsReplacedPackage(d.moduleInfo, importPath)
             IN  rep[1] /\ IsLocalPath(rep[2])
    \/ HasPrefix(importPath, TestdataPrefix)
    \/ HasPrefix(importPath, LintTestPrefix)

isInternalPackage(d, importPath) ==
    \/ /\ d.moduleInfo # NilModuleInfo
       /\ \/ IsInternalPackage(d.moduleInfo, importPath)
          \/ LET rep == IsReplacedPackage(d.moduleInfo, importPath)
             IN  rep[1] /\ IsLocalPath(rep[2])
    \/ HasPrefix(importPath, ProjectPath)
    \/ HasPrefix(importPath, TestdataPrefix)
    \/ HasPrefix(importPath, LintTestPrefix)

isUnknownExternalPackage(d, importPath) ==
    IF ~Contains(importPath, Dot) \/ HasPrefix(importPath, <<"g", "o", "l", "a", "n", "g", ".", "o", "r", "g", "/", "x", "/">>) THEN FALSE
    ELSE IF HasPrefix(importPath, <<"g", "o", ".", "u", "b", "e", "r", ".", "o", "r", "g", "/", "c", "a", "d", "e", "n", "c", "e">>) THEN FALSE
    ELSE IF importPath \in DOMAIN d.externalFuncSet THEN FALSE
    ELSE IF isSafeExternalPackage(d, importPath) THEN FALSE
    ELSE IF isInternalPackage(d, importPath) THEN FALSE
    ELSE IF HasPrefix(importPath, TestdataPrefix) \/ HasPrefix(importPath, LintTestPrefix)
         THEN FALSE
    ELSE TRUE

UnknownExternalMessage(importPath, funcName) ==
    "Call to unknown external package " \o StrOf(importPath) \o "." \o funcName
        \o "() - please verify it's workflow-safe"

\* the issues createIssueIfInWorkflow appends and the registry queries it makes
ruleIssue(r, seedOrder, pkgPath, v, rule) ==
    LET found == createIssueIfInWorkflow(r, seedOrder, pkgPath, v.currFunc, rule)
    IN  [v EXCEPT !.issues = @ \o found,
                  !.queries = @ + (IF found = <<>> THEN 1 ELSE 2)]

\* Visit on one expression node; v is the detector's currFunc and issues and
\* the number of registry queries it has made
visitExpr(d, ctx, r, seedOrder, pkgPath, v, n) ==
    IF n.kind # "sel" THEN v
    ELSE LET pkgAlias == n.X
             mapped == Lookup(ctx.ImportMap, pkgAlias)
             importPath == IF mapped = <<>> THEN Text(pkgAlias) ELSE mapped
             funcName == n.Sel
         IN  IF importPath \in DOMAIN d.functionSet
                  /\ funcName \in DOMAIN d.functionSet[importPath]
             THEN ruleIssue(r, seedOrder, pkgPath, v, d.functionSet[importPath][funcName])
             ELSE IF importPath \in DOMAIN d.externalFuncSet
                       /\ funcName \in DOMAIN d.externalFuncSet[importPath]
             THEN ruleIssue(r, seedOrder, pkgPath, v, d.externalFuncSet[importPath][funcName])
             ELSE IF isSafeExternalPackage(d, importPath) THEN v
             ELSE IF isUnknownExternalPackage(d, importPath)
             THEN IF IsWorkflowReachable(r, pkgPath \o "." \o v.currFunc)
                  THEN [v EXCEPT !.queries = @ + 1,
                                 !.issues = Append(@,
                                    [Rule |-> "UnknownExternalCall", Func |-> v.currFunc,
                                     Message |-> UnknownExternalMessage(importPath, funcName)])]
                  ELSE [v EXCEPT !.queries = @ + 1]
             ELSE v

RECURSIVE visitExprs(_, _, _, _, _, _, _)
visitExprs(d, ctx, r, seedOrder, pkgPath, v, nodes) ==
    IF nodes = <<>> THEN v
    ELSE visitExprs(d, ctx, r, seedOrder, pkgPath,
                    visitExpr(d, ctx, r, seedOrder, pkgPath, v, Head(nodes)), Tail(nodes))

\* the expressions below a declaration in the order ast.Walk reaches them:
\* parameter types, then of every call the function and the arguments
RECURSIVE callExprs(_)
callExprs(calls) ==
    IF calls = <<>> THEN <<>>
    ELSE <<Head(calls).Fun>> \o Head(calls).Args \o callExprs(Tail(calls))

\* ast.Walk(d, node): Visit sets currFunc at a FuncDecl and keeps it elsewhere
RECURSIVE walkDecls(_, _, _, _, _, _, _)
walkDecls(d, ctx, r, seedOrder, pkgPath, v, decls) ==
    IF decls = <<>> THEN v
    ELSE LET decl == Head(decls)
             v1 == IF decl.kind = "func" THEN [v EXCEPT !.currFunc = decl.Name] ELSE v
             v2 == visitExprs(d, ctx, r, seedOrder, pkgPath, v1,
                              decl.Params \o callExprs(decl.Calls))
         IN  walkDecls(d, ctx, r, seedOrder, pkgPath, v2, Tail(decls))

(***************************************************************************)
(* analyzer/scanner.go: the two passes of ScanFile / ScanDirectory         *)
(***************************************************************************)
ImportSpec(name, path) == [Name |-> name, Path |-> path]

\* the alias of one import: its name, else the last element of its path
importAlias(imp) ==
    IF imp.Name \notin {"", "_", "."} THEN imp.Name
    ELSE StrOf(SubSeq(imp.Path, LastSlash(imp.Path) + 1, Len(imp.Path)))

RECURSIVE buildImportMapFrom(_, _)
buildImportMapFrom(imports, m) ==
    IF imports = <<>> THEN m
    ELSE buildImportMapFrom(Tail(imports),
                            MapSet(m, importAlias(Head(imports)), Head(imports).Path))

buildImportMap(f) == buildImportMapFrom(f.Imports, <<>>)

\* an import map with its paths as the registry's string keys need them
StrMap(importMap) == [k \in DOMAIN importMap |-> StrOf(importMap[k])]

ParsedFile(filename, node, importMap, pkgPath) ==
    [filename |-> filename, node |-> node, importMap |-> importMap, pkgPath |-> pkgPath]

\* the rule set of the scanner's tests and the visitors their factory makes
FunctionCalls == << FunctionRule(<<"t", "i", "m", "e">>, {"Now"}, "TimeUsage") >>
ExternalPackages == << FunctionRule(<<"g", "i", "t", "h", "u", "b", ".", "c", "o", "m", "/", "g", "o", "o", "g", "l", "e", "/", "u", "u", "i", "d">>, {"New"}, "UUIDGeneration") >>
SafeExternalPackages == << <<"g", "o", ".", "u", "b", "e", "r", ".", "o", "r", "g", "/", "c", "a", "d", "e", "n", "c", "e">> >>

factory(moduleInfo) ==
    NewFuncCallDetector(FunctionCalls, ExternalPackages, SafeExternalPackages, moduleInfo)

\* the body of the loop of runDetectors for one parsed file
detectFile(s, r, pf, seedOrder) ==
    LET d   == factory(s.resolver.moduleInfo)
        ctx == [File |-> pf.filename, ImportMap |-> pf.importMap]
        v   == walkDecls(d, ctx, r, seedOrder, StrOf(pf.pkgPath),
                         [currFunc |-> "", issues |-> <<>>, queries |-> 0], pf.node.Decls)
    IN  [s EXCEPT !.issues = @ \o [i \in DOMAIN v.issues |->
                                      [File |-> pf.filename, Issue |-> v.issues[i]]],
                  !.queries = @ + v.queries]

\* addFile that also runs the detectors on the file at once, as a scan that
\* handles each file on its own does
addFile_SinglePass(s, r, f) ==
    IF f.status # "ok" THEN [scan |-> [s EXCEPT !.err = TRUE], wr |-> r]
    ELSE LET importMap == buildImportMap(f.node)
             c  == computePackagePathCall(s.resolver, f.path, f.node)
             pf == ParsedFile(f.path, f.node, importMap, c.path)
             r1 == ProcessFileOp(r, f.node.Decls, StrOf(c.path), StrMap(importMap))
             s1 == [s EXCEPT !.resolver = c.pr, !.files = Append(@, pf)]
         IN  [scan |-> detectFile(s1, r1, pf,
                                  CHOOSE o \in Orders(r1.WorkflowFuncs) : TRUE),
              wr   |-> r1]

\* addFile: a file that cannot be read or parsed yields an error; any other is
\* parsed, recorded and handed to ProcessFile
addFile(s, r, f) ==
    IF f.status # "ok" THEN [scan |-> [s EXCEPT !.err = TRUE], wr |-> r]
    ELSE LET importMap == buildImportMap(f.node)
             c  == computePackagePathCall(s.resolver, f.path, f.node)
             pf == ParsedFile(f.path, f.node, importMap, c.path)
         IN  [scan |-> [s EXCEPT !.resolver = c.pr, !.files = Append(@, pf)],
              wr   |-> ProcessFileOp(r, f.node.Decls, StrOf(c.path), StrMap(importMap))]

(***************************************************************************)
(* SpecScan: one run of ScanDirectory on the project root or of ScanFile   *)
(* on one of its files.  Every file of the project is readable and         *)
(* parsable or not; go.mod is absent, unreadable or present.               *)
(***************************************************************************)
ExternalImport == <<"g", "i", "t", "h", "u", "b", ".", "c", "o", "m", "/", "u", "n", "k", "n", "o", "w", "n", "/", "e", "x", "t", "e", "r", "n", "a", "l">>
RegistryImport == <<"g", "i", "t", "h", "u", "b", ".", "c", "o", "m", "/", "a", "f", "o", "n", "y", "1", "0", "/", "c", "a", "d", "e", "n", "c", "e", "-", "w", "o", "r", "k", "f", "l", "o", "w", "-", "l", "i", "n", "t", "e", "r", "/", "a", "n", "a", "l", "y", "z", "e", "r", "/", "r", "e", "g", "i", "s", "t", "r", "y">>
HelpersImport  == ExampleModule \o <<"/", "i", "n", "t", "e", "r", "n", "a", "l", "/", "h", "e", "l", "p", "e", "r", "s">>
WorkflowImport == <<"g", "o", ".", "u", "b", "e", "r", ".", "o", "r", "g", "/", "c", "a", "d", "e", "n", "c", "e", "/", "w", "o", "r", "k", "f", "l", "o", "w">>
UuidImport     == <<"g", "i", "t", "h", "u", "b", ".", "c", "o", "m", "/", "g", "o", "o", "g", "l", "e", "/", "u", "u", "i", "d">>

QualifiedCall(alias, name) == CallExpr(SelectorExpr(alias, name), <<>>)

\* package main; func main() { external.DoSomething() }
MainGo ==
    AstFile(<<"m", "a", "i", "n">>, << ImportSpec("", ExternalImport) >>,
            << FuncDecl("main", <<>>, << QualifiedCall("external", "DoSomething") >>) >>)

\* package wf; func Helper() { time.Now(); external.DoSomething();
\*                             registry.NewWorkflowRegistry() }
HelperGo ==
    AstFile(<<"w", "f">>, << ImportSpec("", <<"t", "i", "m", "e">>), ImportSpec("", ExternalImport),
                      ImportSpec("", RegistryImport) >>,
            << FuncDecl("Helper", <<>>,
                        << QualifiedCall("time", "Now"),
                           QualifiedCall("external", "DoSomething"),
                           QualifiedCall("registry", "NewWorkflowRegistry") >>) >>)

\* package wf; func Flow(ctx workflow.Context) { Helper(); helpers.DoSomething();
\*                                               uuid.New(); ctx.Done() }
WorkflowGo ==
    AstFile(<<"w", "f">>, << ImportSpec("", WorkflowImport), ImportSpec("", HelpersImport),
                      ImportSpec("", UuidImport) >>,
            << FuncDecl("Flow", <<WorkflowCtx>>,
                        << CallExpr(Ident("Helper"), <<>>),
                           QualifiedCall("helpers", "DoSomething"),
                           QualifiedCall("uuid", "New"),
                           QualifiedCall("ctx", "Done") >>) >>)

FileStatus == {"ok", "unreadable", "unparsable"}

\* the Go files below the project root in the order filepath.Walk meets them
Corpus(st) ==
    << [path |-> <<"/", "r", "/", "m", "a", "i", "n", ".", "g", "o">>,        status |-> st[1], node |-> MainGo],
       [path |-> <<"/", "r", "/", "w", "f", "/", "h", "e", "l", "p", "e", "r", ".", "g", "o">>,   status |-> st[2], node |-> HelperGo],
       [path |-> <<"/", "r", "/", "w", "f", "/", "w", "o", "r", "k", "f", "l", "o", "w", ".", "g", "o">>, status |-> st[3], node |-> WorkflowGo] >>

\* parseAllAndBuildRegistry up to the walk: the base directory is the target,
\* or its directory when the target is a file
StartScan(fs, target, isDir, corpus) ==
    LET baseDir == IF isDir THEN target ELSE Dir(target)
    IN  [pc |-> "pass1", fs |-> fs, target |-> target, baseDir |-> baseDir,
         resolver |-> NewPackageResolver(fs, baseDir),
         corpus |-> corpus, walk |-> corpus, files |-> <<>>,
         next |-> 1, issues |-> <<>>, err |-> FALSE, queries |-> 0]

InitScan ==
    /\ wr = NewWorkflowRegistry
    /\ processed = <<>>
    /\ mod = Idle
    /\ res = Idle
    /\ \E gm \in GoModStates : \E st \in [1..3 -> FileStatus] :
          \/ scan = StartScan(FileSystem(gm), Cwd, TRUE, Corpus(st))
          \/ scan = StartScan(FileSystem(gm), Corpus(st)[3].path, FALSE, <<Corpus(st)[3]>>)

\* one call of the walk function: an error of addFile ends the walk and the
\* run returns (nil, err)
AddFile ==
    /\ scan.pc = "pass1"
    /\ scan.walk # <<>>
    /\ LET out == addFile(scan, wr, Head(scan.walk))
       IN  /\ wr' = out.wr
           /\ scan' = IF out.scan.err
                      THEN [out.scan EXCEPT !.pc = "done", !.walk = Tail(@)]
                      ELSE [out.scan EXCEPT !.walk = Tail(@)]
    /\ UNCHANGED <<processed, mod, res>>

\* the walk is over without an error: runDetectors starts
WalkDone ==
    /\ scan.pc = "pass1"
    /\ scan.walk = <<>>
    /\ scan' = [scan EXCEPT !.pc = "pass2"]
    /\ UNCHANGED <<wr, processed, mod, res>>

\* one round of the loop of runDetectors
DetectFile ==
    /\ scan.pc = "pass2"
    /\ scan.next <= Len(scan.files)
    /\ \E o \in Orders(wr.WorkflowFuncs) :
          scan' = [detectFile(scan, wr, scan.files[scan.next], o) EXCEPT !.next = @ + 1]
    /\ UNCHANGED <<wr, processed, mod, res>>

\* runDetectors returns all issues
Return ==
    /\ scan.pc = "pass2"
    /\ scan.next > Len(scan.files)
    /\ scan' = [scan EXCEPT !.pc = "done"]
    /\ UNCHANGED <<wr, processed, mod, res>>

NextScan == AddFile \/ WalkDone \/ DetectFile \/ Return

SpecScan == InitScan /\ [][NextScan]_vars

\* C11: two-phase discipline.  A step that makes a registry query leaves the
\* registry as it is and is taken only after the walk has handed every file of
\* the corpus to ProcessFile; a step that changes the registry is taken before
\* any query was made; and no step of pass 2 or after it changes the registry.
C11_TwoPhase ==
    [][ /\ scan'.queries > scan.queries
            => /\ wr' = wr
               /\ scan.walk = <<>>
               /\ Len(scan.files) = Len(scan.corpus)
        /\ wr' # wr => scan.queries = 0 /\ scan'.queries = 0
        /\ scan.pc # "pass1" => wr' = wr ]_vars

\* a run over all three files returned issues after registry queries, with the
\* registry holding the workflow and its edges
C11_Witness ==
    /\ scan # Idle
    /\ scan.pc = "done"
    /\ Len(scan.files) = 3
    /\ scan.queries > 0
    /\ scan.issues # <<>>
    /\ wr.WorkflowFuncs # {}
    /\ wr.CallGraph # <<>>

\* the files of the corpus that can be read and parsed
GoodFiles(s) == SelectSeq(s.corpus, LAMBDA f : f.status = "ok")

\* C12: per-file failure isolation.  When the run is over, every file that
\* could be read and parsed was added and scanned, whatever happened to the
\* other files, and issues are returned rather than an error alone.
C12_Isolation ==
    (scan # Idle /\ scan.pc = "done")
        => /\ [i \in DOMAIN scan.files |-> scan.files[i].filename]
                 = [i \in DOMAIN GoodFiles(scan) |-> GoodFiles(scan)[i].path]
           /\ scan.next > Len(GoodFiles(scan))
           /\ ( \E i \in DOMAIN scan.corpus :
                    /\ scan.corpus[i].node = WorkflowGo
                    /\ scan.corpus[i].status = "ok" )
                 => \E j \in DOMAIN scan.issues : scan.issues[j].Issue.Func = "Flow"

\* FindGoMod or ParseGoMod fails for the base directory of the run
ManifestMissing(s) ==
    LET found == FindGoMod(s.fs, s.baseDir)
    IN  found.err \/ ParseGoMod(s.fs, found.path).err

\* the qualified calls of a parsed file: the function they are in, the import
\* path of the qualifier and the name called
QualifiedCalls(pf) ==
    UNION {{[Func |-> pf.node.Decls[i].Name,
             importPath |-> pf.importMap[c.Fun.X],
             funcName |-> c.Fun.Sel] :
              c \in {x \in Range(pf.node.Decls[i].Calls) :
                        x.Fun.kind = "sel" /\ x.Fun.X \in DOMAIN pf.importMap}} :
           i \in {j \in DOMAIN pf.node.Decls : pf.node.Decls[j].kind = "func"}}

\* a dotted path of a third party: not below the project path, not the
\* framework's, without a configured rule
OtherThirdParty(importPath) ==
    /\ Contains(importPath, Dot)
    /\ ~HasPrefix(importPath, ProjectPath)
    /\ ~HasPrefix(importPath, <<"g", "o", ".", "u", "b", "e", "r", ".", "o", "r", "g", "/", "c", "a", "d", "e", "n", "c", "e">>)
    /\ \A i \in DOMAIN ExternalPackages : ExternalPackages[i].Package # importPath

UnknownExternalIssues(s) ==
    {[File |-> s.issues[i].File, Func |-> s.issues[i].Issue.Func,
      Message |-> s.issues[i].Issue.Message] :
        i \in {j \in DOMAIN s.issues : s.issues[j].Issue.Rule = "UnknownExternalCall"}}

\* C13: manifest absence degrades.  When FindGoMod or ParseGoMod fails the
\* resolver has no ModuleInfo, the run returns an error only if a file could
\* not be read or parsed, every package path is the heuristic one, and of the
\* qualified calls in workflow-reachable functions those into the hardcoded
\* project path are not reported as UnknownExternalCall while those to other
\* dotted third-party paths are.
C13_Degrades ==
    (scan # Idle /\ ManifestMissing(scan))
        => /\ scan.resolver.moduleInfo = NilModuleInfo
           /\ scan.err => \E i \in DOMAIN scan.corpus : scan.corpus[i].status # "ok"
           /\ \A i \in DOMAIN scan.files :
                 scan.files[i].pkgPath
                     = heuristicPath(scan.resolver, scan.files[i].filename,
                                     scan.files[i].node.Name)
           /\ \A i \in DOMAIN scan.files :
                 \/ HeuristicForm(scan.files[i].pkgPath)
                 \/ /\ scan.files[i].pkgPath = scan.files[i].node.Name
                    /\ Dir(scan.files[i].filename) = scan.baseDir
           /\ (scan.pc = "done" /\ ~scan.err)
                 => \A i \in DOMAIN scan.files : \A c \in QualifiedCalls(scan.files[i]) :
                       LET pf == scan.files[i]
                           reported ==
                               [File |-> pf.filename, Func |-> c.Func,
                                Message |-> UnknownExternalMessage(c.importPath, c.funcName)]
                                   \in UnknownExternalIssues(scan)
                       IN  /\ HasPrefix(c.importPath, ProjectPath) => ~reported
                           /\ ( /\ OtherThirdParty(c.importPath)
                                /\ IsWorkflowReachable(wr, StrOf(pf.pkgPath) \o "." \o c.Func) )
                                 => reported

\* go.mod cannot be read; the run ends without an error, the call into the
\* project path went unreported and the calls to the other third-party paths,
\* the module's own package among them, were reported
C13_Witness ==
    /\ scan # Idle
    /\ scan.fs.goMod # <<>>
    /\ ManifestMissing(scan)
    /\ scan.pc = "done" /\ ~scan.err
    /\ Len(scan.files) = 3
    /\ \E i \in DOMAIN scan.files :
          \E c \in QualifiedCalls(scan.files[i]) : c.importPath = RegistryImport
    /\ {m.Message : m \in UnknownExternalIssues(scan)}
          = { UnknownExternalMessage(ExternalImport, "DoSomething"),
              UnknownExternalMessage(HelpersImport, "DoSomething") }

(***************************************************************************)
(* SpecRegistry: any sequence of the three mutators MarkWorkflow,          *)
(* MarkActivity and AddEdges on one registry                               *)
(***************************************************************************)
NextRegistry ==
    \/ \E f \in WorkflowNames : MarkWorkflow(Pkg, f)
    \/ \E f \in ActivityNames : MarkActivity(Pkg, f)
    \/ \E e \in Edges : AddEdges(<<e>>)

SpecRegistry == Init /\ [][NextRegistry]_vars

\* C29: the two reachability implementations agree.  In every registry state,
\* whatever order the workflow map is ranged over, ReachableFromWorkflows
\* returns exactly the workflow-classified functions plus what they reach along
\* edges whose callee is not activity-classified, and CallPathTo(f) is
\* non-empty exactly for the names f of that set.
C29_Agreement ==
    \A o \in Orders(wr.WorkflowFuncs) :
        /\ ReachableFromWorkflows(wr, o) = PrunedReach(wr)
        /\ \A f \in Universe(wr) :
              (CallPathTo(wr, o, f) # <<>>) <=> (f \in ReachableFromWorkflows(wr, o))

\* W calls H1 and the activity A, A calls H2: H1 is in both answers, A and H2
\* are in neither
C29_Witness ==
    /\ wr.WorkflowFuncs = {W}
    /\ wr.ActivityFuncs = {A}
    /\ HasEdge(wr, W, H1) /\ HasEdge(wr, W, A) /\ HasEdge(wr, A, H2)
    /\ ~HasEdge(wr, W, H2) /\ ~HasEdge(wr, H1, H2)
    /\ ReachableFromWorkflows(wr, <<W>>) = {W, H1}
    /\ CallPathTo(wr, <<W>>, H1) = <<W, H1>>
    /\ CallPathTo(wr, <<W>>, H2) = <<>>

\* C30: well-formed call paths.  Every non-empty result of CallPathTo(target)
\* starts at a workflow-classified function, ends at target, follows edges of
\* CallGraph, repeats no name and holds no activity-classified name after the
\* first.
C30_WellFormedPaths ==
    \A o \in Orders(wr.WorkflowFuncs) : \A target \in Universe(wr) :
        LET p == CallPathTo(wr, o, target)
        IN  p # <<>> =>
               /\ p[1] \in wr.WorkflowFuncs
               /\ p[Len(p)] = target
               /\ \A i \in 1..(Len(p) - 1) : HasEdge(wr, p[i], p[i + 1])
               /\ \A i, j \in DOMAIN p : p[i] = p[j] => i = j
               /\ \A i \in 2..Len(p) : p[i] \notin wr.ActivityFuncs

\* a path of three names through a cycle W -> H1 -> W with H1 -> H2
C30_Witness ==
    /\ W \in wr.WorkflowFuncs
    /\ HasEdge(wr, W, H1) /\ HasEdge(wr, H1, W) /\ HasEdge(wr, H1, H2)
    /\ \E o \in Orders(wr.WorkflowFuncs) : CallPathTo(wr, o, H2) = <<W, H1, H2>>

(***************************************************************************)
(* callgraph_builder.go: the traversal ast.Inspect(fn.Body, ...) performs. *)
(* A body is a sequence of call expressions whose function or arguments    *)
(* may hold function literals and further calls; Inspect visits a call,    *)
(* then its Fun, then its Args, and its callback always returns true, so   *)
(* every call below the declaration is visited, in pre-order.              *)
(***************************************************************************)
FuncLit(calls) == [kind |-> "funclit", X |-> "", Sel |-> "", Calls |-> calls]
CallArg(call)  == [kind |-> "call", X |-> "", Sel |-> "", Call |-> call]

RECURSIVE inspectCalls(_)
RECURSIVE inspectExprs(_)
inspectCalls(calls) ==
    IF calls = <<>> THEN <<>>
    ELSE LET c == Head(calls)
         IN  <<c>> \o inspectExprs(<<c.Fun>> \o c.Args) \o inspectCalls(Tail(calls))

inspectExprs(exprs) ==
    IF exprs = <<>> THEN <<>>
    ELSE LET e == Head(exprs)
         IN  (IF e.kind = "funclit" THEN inspectCalls(e.Calls)
              ELSE IF e.kind = "call" THEN inspectCalls(<<e.Call>>)
              ELSE <<>>)
             \o inspectExprs(Tail(exprs))

(***************************************************************************)
(* Specification SpecEdges: ProcessFile on one file of a generated pool.   *)
(* processed records the file together with the edges BuildEdges returned  *)
(* for it.                                                                 *)
(***************************************************************************)
MaxBody == 2

\* g()   workflow.Sleep()   time.Now()   a.b.c()
\* workflow.Go(func() { h() })   func() { g() }()   g(time.Now())
BareCall      == CallExpr(Ident("g"), <<>>)
MappedCall    == CallExpr(SelectorExpr("workflow", "Sleep"), <<>>)
UnmappedCall  == CallExpr(SelectorExpr("time", "Now"), <<>>)
ChainedCall   == CallExpr(OtherExpr, <<>>)
GoLiteral     == CallExpr(SelectorExpr("workflow", "Go"),
                          <<FuncLit(<<CallExpr(Ident("h"), <<>>)>>)>>)
LiteralCall   == CallExpr(FuncLit(<<BareCall>>), <<>>)
NestedCall    == CallExpr(Ident("g"), <<CallArg(UnmappedCall)>>)

CallShapes ==
    {BareCall, MappedCall, UnmappedCall, ChainedCall, GoLiteral, LiteralCall, NestedCall}

Bodies == UNION {[1..n -> CallShapes] : n \in 0..MaxBody}

\* the package paths computePackagePath hands over: a module path, and the
\* empty module path of a go.mod without a module line
EdgePkgPaths == {Pkg, ""}

\* decl: "func" for func F() { body }, "var" for var x = body, "ext" for a
\* declaration of F without a body
EdgeFile(decl, body, pkgPath) ==
    [node |-> IF decl = "func" THEN <<FuncDecl("F", <<>>, inspectCalls(body))>>
              ELSE IF decl = "var" THEN <<GenDecl(inspectCalls(body))>>
              ELSE <<FuncDeclNoBody("F", <<>>)>>,
     decl |-> decl, body |-> body, pkgPath |-> pkgPath, importMap |-> CadenceImports]

EdgePool ==
    {EdgeFile(d, b, p) : d \in {"func", "var"}, b \in Bodies, p \in EdgePkgPaths}
    \cup {EdgeFile("ext", <<>>, p) : p \in EdgePkgPaths}

BuildFile(pf) ==
    /\ processed = <<>>
    /\ wr' = ProcessFileOp(wr, pf.node, pf.pkgPath, pf.importMap)
    /\ processed' = <<[file |-> pf,
                       edges |-> BuildEdges(pf.node, pf.pkgPath, pf.importMap)]>>
    /\ UNCHANGED <<mod, res, scan>>

NextEdges == \E pf \in EdgePool : BuildFile(pf)

SpecEdges == Init /\ [][NextEdges]_vars

\* ---- claim side ----
\* the qualified name the claim gives: path.name as written, or with the
\* registry's spelling of an empty path
C23_Name(path, name, asWritten) ==
    IF asWritten \/ path # "" THEN path \o "." \o name ELSE "local." \o name

\* the edges the claim lists for a body, by structural descent
RECURSIVE C23_OfCalls(_, _, _)
RECURSIVE C23_OfExprs(_, _, _)
C23_OfCalls(calls, pf, asWritten) ==
    IF calls = <<>> THEN <<>>
    ELSE LET c    == Head(calls)
             own  == IF c.Fun.kind = "ident"
                     THEN <<C23_Name(pf.pkgPath, c.Fun.Sel, asWritten)>>
                     ELSE IF c.Fun.kind = "sel"
                          THEN <<C23_Name(IF c.Fun.X \in DOMAIN pf.importMap
                                          THEN pf.importMap[c.Fun.X] ELSE c.Fun.X,
                                          c.Fun.Sel, asWritten)>>
                          ELSE <<>>
         IN  own \o C23_OfExprs(<<c.Fun>> \o c.Args, pf, asWritten)
                 \o C23_OfCalls(Tail(calls), pf, asWritten)

C23_OfExprs(exprs, pf, asWritten) ==
    IF exprs = <<>> THEN <<>>
    ELSE LET e == Head(exprs)
         IN  (IF e.kind = "funclit" THEN C23_OfCalls(e.Calls, pf, asWritten)
              ELSE IF e.kind = "call" THEN C23_OfCalls(<<e.Call>>, pf, asWritten)
              ELSE <<>>)
             \o C23_OfExprs(Tail(exprs), pf, asWritten)

C23_Holds(asWritten) ==
    \A i \in DOMAIN processed :
        LET pf       == processed[i].file
            edges    == processed[i].edges
            callees  == [k \in DOMAIN edges |-> edges[k].Callee]
            expected == IF pf.decl = "func" THEN C23_OfCalls(pf.body, pf, asWritten)
                        ELSE <<>>
        IN  /\ \A k \in DOMAIN edges :
                  edges[k].Caller = C23_Name(pf.pkgPath, "F", asWritten)
            /\ Len(edges) = Len(expected)
            /\ SameBag(callees, expected)

\* C23 as stated: every bare or qualified call below the body of F, nested
\* function literals included, gives exactly one edge from packagePath.F to
\* packagePath.g or P.g (P the import path of the alias, else the alias);
\* other call shapes and declarations without a body give none.
C23_Original == C23_Holds(TRUE)

\* C23 amended: the same, with every name built by canonical, which spells an
\* empty package path "local": the caller is local.F and a bare callee local.g
\* when packagePath is empty.
C23_EdgesPerCall == C23_Holds(FALSE)

\* an empty package path, a literal passed to a qualified call, and a bare call
C23_Witness ==
    /\ processed # <<>>
    /\ processed[1].file.decl = "func"
    /\ processed[1].file.pkgPath = ""
    /\ processed[1].file.body = <<GoLiteral, BareCall>>
    /\ Len(processed[1].edges) = 3

(***************************************************************************)
(* detectors: GoroutineDetector, ChannelDetector and ImportDetector.       *)
(* A go statement is the call it starts, marked Go; make(chan T) is a call *)
(* of the identifier make whose first argument is a channel type.  Each    *)
(* walk carries the visitor's fields [currFunc, issues].                   *)
(***************************************************************************)
GoStmt(call) == [Fun |-> call.Fun, Args |-> call.Args, Go |-> TRUE]
isGoStmt(n)  == "Go" \in DOMAIN n
ChanType     == [kind |-> "chan", X |-> "", Sel |-> ""]

NilRegistry == <<>>

GoroutineMessage == "Detected goroutine. Use workflow.Go(ctx) inside workflows."
ChannelMessage ==
    "Detected channel creation in workflow. Use workflow.Channel(ctx) instead."

Issue(file, rule, message, func) ==
    [File |-> file, Rule |-> rule, Message |-> message, Func |-> func]

\* GoroutineDetector.Visit on the nodes below one declaration
RECURSIVE goroutineVisit(_, _, _)
goroutineVisit(ctx, v, nodes) ==
    IF nodes = <<>> THEN v
    ELSE goroutineVisit(ctx,
             IF isGoStmt(Head(nodes))
             THEN [v EXCEPT !.issues =
                      Append(@, Issue(ctx.File, "Concurrency", GoroutineMessage, v.currFunc))]
             ELSE v,
             Tail(nodes))

\* ChannelDetector.Visit on the nodes below one declaration
RECURSIVE channelVisit(_, _, _, _)
channelVisit(ctx, r, v, nodes) ==
    IF nodes = <<>> THEN v
    ELSE LET n == Head(nodes)
         IN  channelVisit(ctx, r,
                 IF /\ n.Fun.kind = "ident" /\ n.Fun.Sel = "make"
                    /\ Len(n.Args) > 0
                    /\ n.Args[1].kind = "chan"
                 THEN IF r # NilRegistry /\ v.currFunc \notin r.WorkflowFuncs
                      THEN v
                      ELSE [v EXCEPT !.issues =
                               Append(@, Issue(ctx.File, "Concurrency", ChannelMessage, ""))]
                 ELSE v,
                 Tail(nodes))

\* ast.Walk(d, node) for the two visitors that track the current function
RECURSIVE walkGoroutine(_, _, _)
walkGoroutine(ctx, v, decls) ==
    IF decls = <<>> THEN v
    ELSE LET decl == Head(decls)
             v1 == IF decl.kind = "func" THEN [v EXCEPT !.currFunc = decl.Name] ELSE v
         IN  walkGoroutine(ctx, goroutineVisit(ctx, v1, decl.Calls), Tail(decls))

RECURSIVE walkChannel(_, _, _, _)
walkChannel(ctx, r, v, decls) ==
    IF decls = <<>> THEN v
    ELSE LET decl == Head(decls)
             v1 == IF decl.kind = "func" THEN [v EXCEPT !.currFunc = decl.Name] ELSE v
         IN  walkChannel(ctx, r, channelVisit(ctx, r, v1, decl.Calls), Tail(decls))

\* config.ImportRule and the `for _, r := range d.rules` loop
ImportRule(rule, path, message) == [Rule |-> rule, Path |-> path, Message |-> message]

RECURSIVE importRules(_, _, _, _)
importRules(ctx, rules, path, issues) ==
    IF rules = <<>> THEN issues
    ELSE importRules(ctx, Tail(rules), path,
             IF Head(rules).Path = path
             THEN Append(issues, Issue(ctx.File, Head(rules).Rule, Head(rules).Message, ""))
             ELSE issues)

\* ImportDetector.Visit over the import specs of the file
RECURSIVE walkImports(_, _, _, _, _)
walkImports(ctx, rules, r, issues, imports) ==
    IF imports = <<>> THEN issues
    ELSE walkImports(ctx, rules, r,
             IF Cardinality(r.WorkflowFuncs) = 0 THEN issues
             ELSE importRules(ctx, rules, Head(imports).Path, issues),
             Tail(imports))

\* disallowed_imports of the documented rule file
MathRand == <<"m", "a", "t", "h", "/", "r", "a", "n", "d">>
DisallowedImports ==
    << ImportRule("ImportRandom", MathRand,
                  "Importing math/rand in files with workflows is discouraged") >>

\* runDetectors with the import, goroutine and channel visitors of main's
\* factory: a fresh visitor of each kind per file, the registry shared
RECURSIVE runDetectors(_, _, _)
runDetectors(files, r, all) ==
    IF files = <<>> THEN all
    ELSE LET pf  == Head(files)
             ctx == [File |-> pf.filename, ImportMap |-> pf.importMap]
             v0  == [currFunc |-> "", issues |-> <<>>]
         IN  runDetectors(Tail(files), r,
                 all \o walkImports(ctx, DisallowedImports, r, <<>>, pf.node.Imports)
                     \o walkGoroutine(ctx, v0, pf.node.Decls).issues
                     \o walkChannel(ctx, r, v0, pf.node.Decls).issues)

(***************************************************************************)
(* Specification SpecDetect: parseAllAndBuildRegistry over up to           *)
(* MaxDetFiles files of package Pkg, then runDetectors.  Every file        *)
(* declares one function: W with a workflow.Context, A with a              *)
(* context.Context, or H1 with neither.                                    *)
(***************************************************************************)
MaxDetFiles == 2

FileNames == <<"a.go", "b.go", "c.go", "d.go">>

GoLit    == GoStmt(CallExpr(FuncLit(<<>>), <<>>))
MakeChan == CallExpr(Ident("make"), <<ChanType>>)

DetBodies == {<<>>, <<GoLit>>, <<MakeChan>>, <<GoLit, MakeChan>>}

DetFuncs ==
    { [Name |-> "W", Params |-> <<WorkflowCtx>>],
      [Name |-> "A", Params |-> <<ContextCtx>>],
      [Name |-> "H1", Params |-> <<>>] }

DetImports == {<<>>, <<ImportSpec("", MathRand)>>}

DetFile(fn, body, imports) ==
    AstFile(<<"p">>, imports, <<FuncDecl(fn.Name, fn.Params, inspectCalls(body))>>)

DetPool == {DetFile(fn, b, i) : fn \in DetFuncs, b \in DetBodies, i \in DetImports}

\* one file of the first pass: buildImportMap, then ProcessFile
ParseFile(node) ==
    /\ scan = Idle
    /\ Len(processed) < MaxDetFiles
    /\ LET importMap == buildImportMap(node)
       IN  /\ wr' = ProcessFileOp(wr, node.Decls, Pkg, StrMap(importMap))
           /\ processed' = Append(processed,
                                  ParsedFile(FileNames[Len(processed) + 1], node,
                                             importMap, Pkg))
    /\ UNCHANGED <<mod, res, scan>>

\* the second pass
RunDetectors ==
    /\ scan = Idle
    /\ processed # <<>>
    /\ scan' = [issues |-> runDetectors(processed, wr, <<>>)]
    /\ UNCHANGED <<wr, processed, mod, res>>

NextDetect ==
    \/ \E node \in DetPool : ParseFile(node)
    \/ RunDetectors

SpecDetect == Init /\ [][NextDetect]_vars

\* ---- claim side ----
DetFunc(pf) == pf.node.Decls[1]

HasGo(pf)   == \E i \in DOMAIN DetFunc(pf).Calls : isGoStmt(DetFunc(pf).Calls[i])
HasMake(pf) == \E i \in DOMAIN DetFunc(pf).Calls : DetFunc(pf).Calls[i] = MakeChan
ImportsRand(pf) == \E i \in DOMAIN pf.node.Imports : pf.node.Imports[i].Path = MathRand

DeclaresWorkflow(pf) == WorkflowCtx \in Range(DetFunc(pf).Params)

IssuesOf(pf, message) ==
    {i \in DOMAIN scan.issues :
        scan.issues[i].File = pf.filename /\ scan.issues[i].Message = message}

\* C24: a go statement gives a Concurrency issue of the GoroutineDetector
\* exactly when the function around it is workflow-reachable: none inside a
\* function that is only an activity or unclassified, at least one inside a
\* workflow function.
C24_GoroutineGated ==
    scan # Idle =>
        \A k \in DOMAIN processed :
            LET pf == processed[k]
            IN  HasGo(pf) =>
                   ((IssuesOf(pf, GoroutineMessage) # {})
                       <=> IsWorkflowReachable(wr, canonical(Pkg, DetFunc(pf).Name)))

\* C25: the ImportDetector reports a disallowed import of a file only if
\* that same file declares a workflow function, whatever the other files of
\* the run declare.
C25_ImportPerFile ==
    scan # Idle =>
        \A k \in DOMAIN processed :
            LET pf == processed[k]
            IN  (IssuesOf(pf, DisallowedImports[1].Message) # {}) => DeclaresWorkflow(pf)

\* C26: with the registry built from the same file, make(chan T) inside a
\* workflow-classified function gives at least one Concurrency issue of the
\* ChannelDetector, and none inside a function that is not workflow-classified.
C26_ChannelGated ==
    (scan # Idle /\ Len(processed) = 1) =>
        LET pf == processed[1]
        IN  HasMake(pf) =>
               ((IssuesOf(pf, ChannelMessage) # {})
                   <=> (canonical(Pkg, DetFunc(pf).Name) \in wr.WorkflowFuncs))

(***************************************************************************)
(* Specification SpecCalls: one file of package Pkg through ProcessFile    *)
(* and then through the FuncCallDetector, with and without a manifest.     *)
(* The manifest is the go.mod of TestHybridPackageClassification with the  *)
(* module path ExampleModule; res holds the resolver that carries it.      *)
(***************************************************************************)
OldLibImport == <<"g", "i", "t", "h", "u", "b", ".", "c", "o", "m", "/", "o", "l", "d", "/", "l", "i", "b">>
LocalLibPath == <<".", "/", "l", "o", "c", "a", "l", "/", "l", "i", "b">>
TimeImport   == <<"t", "i", "m", "e">>

HybridModule ==
    ModuleInfo(ExampleModule, <<ReplaceDirective(OldLibImport, LocalLibPath)>>, Cwd)

\* the rules of the test, and one rule on a function of a safe-listed package
CallExternalRules ==
    ExternalPackages \o << FunctionRule(WorkflowImport, {"NewTimer"}, "RawTimer") >>

CallImports ==
    << ImportSpec("", TimeImport), ImportSpec("", UuidImport), ImportSpec("", WorkflowImport),
       ImportSpec("", HelpersImport), ImportSpec("", OldLibImport),
       ImportSpec("", ExternalImport), ImportSpec("", RegistryImport) >>

CallPool ==
    { QualifiedCall("time", "Now"), QualifiedCall("time", "Since"),
      QualifiedCall("uuid", "New"), QualifiedCall("workflow", "Sleep"),
      QualifiedCall("workflow", "NewTimer"), QualifiedCall("helpers", "DoSomething"),
      QualifiedCall("lib", "Do"), QualifiedCall("external", "DoSomething"),
      QualifiedCall("registry", "NewWorkflowRegistry") }

\* func F(params) { call }, optionally followed by  var x = call
CallFiles ==
    {AstFile(<<"p">>, CallImports, <<FuncDecl(fn.Name, fn.Params, <<c>>)>>) :
        fn \in DetFuncs, c \in CallPool}
    \cup {AstFile(<<"p">>, CallImports, <<FuncDecl(fn.Name, fn.Params, <<c>>), GenDecl(<<g>>)>>) :
        fn \in DetFuncs, c \in CallPool, g \in CallPool}

InitCalls ==
    /\ wr = NewWorkflowRegistry
    /\ processed = <<>>
    /\ mod = Idle
    /\ scan = Idle
    /\ \E mi \in {NilModuleInfo, HybridModule} : res = [baseDir |-> Cwd, moduleInfo |-> mi]

ParseCalls(node) ==
    /\ processed = <<>>
    /\ LET importMap == buildImportMap(node)
       IN  /\ wr' = ProcessFileOp(wr, node.Decls, Pkg, StrMap(importMap))
           /\ processed' = <<ParsedFile(FileNames[1], node, importMap, <<"p">>)>>
    /\ UNCHANGED <<mod, res, scan>>

DetectCalls ==
    /\ scan = Idle
    /\ processed # <<>>
    /\ \E o \in Orders(wr.WorkflowFuncs) :
          LET pf  == processed[1]
              d   == NewFuncCallDetector(FunctionCalls, CallExternalRules,
                                         SafeExternalPackages, res.moduleInfo)
              ctx == [File |-> pf.filename, ImportMap |-> pf.importMap]
              v   == walkDecls(d, ctx, wr, o, StrOf(pf.pkgPath),
                               [currFunc |-> "", issues |-> <<>>, queries |-> 0],
                               pf.node.Decls)
          IN  scan' = [issues |-> v.issues]
    /\ UNCHANGED <<wr, processed, mod, res>>

NextCalls ==
    \/ \E node \in CallFiles : ParseCalls(node)
    \/ DetectCalls

SpecCalls == InitCalls /\ [][NextCalls]_vars

\* ---- claim side ----
\* the function declarations of a file whose name the registry answers as
\* workflow-reachable, and the qualified calls in their bodies
ReachableDecls(pf) ==
    {i \in DOMAIN pf.node.Decls :
        /\ pf.node.Decls[i].kind = "func"
        /\ IsWorkflowReachable(wr, Pkg \o "." \o pf.node.Decls[i].Name)}

BodyReferences(pf) ==
    UNION {{<<i, k>> : k \in {j \in DOMAIN pf.node.Decls[i].Calls :
                                  pf.node.Decls[i].Calls[j].Fun.kind = "sel"}} :
           i \in ReachableDecls(pf)}

\* the issues of the file once everything outside its function declarations
\* is taken away
IssuesOfFunctions(pf) ==
    LET d     == NewFuncCallDetector(FunctionCalls, CallExternalRules,
                                     SafeExternalPackages, res.moduleInfo)
        ctx   == [File |-> pf.filename, ImportMap |-> pf.importMap]
        funcs == SelectSeq(pf.node.Decls, LAMBDA decl : decl.kind = "func")
    IN  {walkDecls(d, ctx, wr, o, Pkg, [currFunc |-> "", issues |-> <<>>, queries |-> 0],
                   funcs).issues : o \in Orders(wr.WorkflowFuncs)}

\* C21: every issue of the FuncCallDetector belongs to a qualified reference
\* inside the body of a workflow-reachable function declaration F and names F;
\* a reference outside every function declaration gives no issue: there are
\* no more issues than references in such bodies, and the issues are those
\* of the function declarations alone.
C21_EnclosingFunction ==
    scan # Idle =>
        LET pf == processed[1]
        IN  /\ \A i \in DOMAIN scan.issues :
                  \E r \in BodyReferences(pf) : scan.issues[i].Func = pf.node.Decls[r[1]].Name
            /\ Len(scan.issues) <= Cardinality(BodyReferences(pf))
            /\ scan.issues \in IssuesOfFunctions(pf)

\* the tiers as the claim words them
C22_Internal(importPath) ==
    /\ res.moduleInfo # NilModuleInfo
    /\ \/ IsInternalPackage(res.moduleInfo, importPath)
       \/ /\ IsReplacedPackage(res.moduleInfo, importPath)[1]
          /\ IsLocalPath(IsReplacedPackage(res.moduleInfo, importPath)[2])

C22_Rule(importPath, funcName) ==
    LET all == FunctionCalls \o CallExternalRules
        I   == {i \in DOMAIN all : all[i].Package = importPath /\ funcName \in all[i].Functions}
    IN  IF I = {} THEN "" ELSE all[CHOOSE i \in I : TRUE].Rule

C22_SafeOrStandard(importPath) ==
    \/ \E i \in DOMAIN SafeExternalPackages :
          importPath = SafeExternalPackages[i]
              \/ HasPrefix(importPath, SafeExternalPackages[i] \o Slash)
    \/ HasPrefix(importPath, <<"g", "o", ".", "u", "b", "e", "r", ".", "o", "r", "g", "/", "c", "a", "d", "e", "n", "c", "e">>)
    \/ ~Contains(importPath, Dot)
    \/ HasPrefix(importPath, <<"g", "o", "l", "a", "n", "g", ".", "o", "r", "g", "/", "x", "/">>)

\* C22: for a qualified call inside a workflow function, (a) an import path
\* internal to the module never gives UnknownExternalCall, (b) a configured
\* rule gives its issue even for a safe-listed package, (c) a safe-listed,
\* framework or standard-library path without a rule gives nothing, (d) any
\* other path gives exactly one UnknownExternalCall naming importPath.function.
C22_Tiers ==
    (scan # Idle /\ Len(processed[1].node.Decls) = 1
                 /\ WorkflowCtx \in Range(DetFunc(processed[1]).Params)) =>
        LET pf         == processed[1]
            call       == DetFunc(pf).Calls[1]
            importPath == pf.importMap[call.Fun.X]
            funcName   == call.Fun.Sel
            rule       == C22_Rule(importPath, funcName)
            unknown    == {i \in DOMAIN scan.issues : scan.issues[i].Rule = "UnknownExternalCall"}
        IN  /\ C22_Internal(importPath) => unknown = {}
            /\ rule # "" => \E i \in DOMAIN scan.issues : scan.issues[i].Rule = rule
            /\ (rule = "" /\ C22_SafeOrStandard(importPath)) => scan.issues = <<>>
            /\ (rule = "" /\ ~C22_SafeOrStandard(importPath) /\ ~C22_Internal(importPath))
                  => /\ Len(scan.issues) = 1
                     /\ scan.issues[1].Rule = "UnknownExternalCall"
                     /\ scan.issues[1].Message = UnknownExternalMessage(importPath, funcName)

(***************************************************************************)
(* Specification SpecFind: FindGoMod round by round.  mod holds the call:  *)
(* the file system, startDir, currentDir, the directories whose go.mod was *)
(* looked for so far, and the result once the loop is left.  SpecFindLive  *)
(* adds that a call that can take a round takes it.                        *)
(***************************************************************************)
MaxFindDepth == 2

DirNames == {"a", "b"}

\* the absolute directories of depth n, and of depth at most n
RECURSIVE DirsAt(_)
DirsAt(n) ==
    IF n = 0 THEN {Slash}
    ELSE {JoinPath(d, <<c>>) : d \in DirsAt(n - 1), c \in DirNames}

Dirs == UNION {DirsAt(n) : n \in 0..MaxFindDepth}

\* file systems with a go.mod in at most two of the directories
FindFileSystems ==
    {[cwd   |-> <<"/", "a">>,
      goMod |-> [d \in S |-> GoModFile(TRUE, ExampleModule, <<>>)]] :
        S \in {{}} \cup {{d1, d2} : d1 \in Dirs, d2 \in Dirs}}

\* absolute start directories, and two relative to the working directory
StartDirs == Dirs \cup {Dot, <<"b">>}

InitFind ==
    /\ wr = NewWorkflowRegistry
    /\ processed = <<>>
    /\ res = Idle
    /\ scan = Idle
    /\ \E fs \in FindFileSystems : \E startDir \in StartDirs :
          mod = [pc |-> "loop", fs |-> fs, startDir |-> startDir,
                 currentDir |-> Abs(fs, startDir), checked |-> <<>>,
                 err |-> FALSE, path |-> <<>>]

FindRound ==
    /\ mod.pc = "loop"
    /\ Len(mod.checked) <= MaxFindDepth + 1
    /\ LET round == findGoModRound(mod.fs, mod.currentDir)
       IN  mod' = [mod EXCEPT !.pc = IF round.done THEN "done" ELSE "loop",
                              !.checked = Append(@, mod.currentDir),
                              !.currentDir = round.currentDir,
                              !.err = round.err,
                              !.path = round.path]
    /\ UNCHANGED <<wr, processed, res, scan>>

NextFind == FindRound

SpecFind == InitFind /\ [][NextFind]_vars

SpecFindLive == SpecFind /\ WF_vars(NextFind)

\* ---- claim side ----
\* the directory chain of an absolute directory, from itself up to the root
ChainOf(dir) ==
    LET cuts == {i \in DOMAIN dir : dir[i] = "/"}
        ups  == {IF i = 1 THEN Slash ELSE SubSeq(dir, 1, i - 1) : i \in cuts} \cup {dir}
    IN  ups

LongestIn(S) == CHOOSE d \in S : \A e \in S : Len(e) <= Len(d)

C27_Safe ==
    (mod # Idle) =>
        LET chain   == ChainOf(Abs(mod.fs, mod.startDir))
            holders == chain \cap DOMAIN mod.fs.goMod
        IN  /\ \A i \in DOMAIN mod.checked : mod.checked[i] \in chain
            /\ \A i, j \in DOMAIN mod.checked : i < j => Len(mod.checked[j]) < Len(mod.checked[i])
            /\ mod.pc = "done" =>
                  /\ mod.err <=> holders = {}
                  /\ ~mod.err => mod.path = JoinPath(LongestIn(holders), GoModName)
                  /\ Range(mod.checked)
                        = {d \in chain : holders # {} => Len(d) >= Len(LongestIn(holders))}

\* C27: FindGoMod terminates on every finite directory chain; it looks at each
\* directory from startDir up to the root at most once, in that order, returns
\* the go.mod of the nearest directory of the chain that has one (startDir
\* included), and the not-found error exactly when none has.
C27_Terminates == [](C27_Safe) /\ <>(mod.pc = "done")

\* from /a/b with a go.mod in / and, off the chain, in /b: found in the root
\* after three directories
C27_Witness ==
    /\ mod # Idle
    /\ mod.pc = "done"
    /\ mod.startDir = <<"b">>
    /\ DOMAIN mod.fs.goMod = {Slash, <<"/", "b">>}
    /\ mod.path = <<"/", "g", "o", ".", "m", "o", "d">>
    /\ Len(mod.checked) = 3

(***************************************************************************)
(* strings: the functions ParseGoMod applies to a line.  Index is the      *)
(* 1-based position of the first occurrence, 0 for Go's -1.                *)
(***************************************************************************)
IsSpaceChar(c) == c \in {" ", "\t"}

RECURSIVE TrimLeft(_)
TrimLeft(s) == IF s # <<>> /\ IsSpaceChar(Head(s)) THEN TrimLeft(Tail(s)) ELSE s

RECURSIVE TrimRight(_)
TrimRight(s) ==
    IF s # <<>> /\ IsSpaceChar(s[Len(s)]) THEN TrimRight(SubSeq(s, 1, Len(s) - 1)) ELSE s

\* strings.TrimSpace on a line
TrimSpaceLine(s) == TrimRight(TrimLeft(s))

Index(s, substr) ==
    LET I == {i \in 1..(Len(s) - Len(substr) + 1) : SubSeq(s, i, i + Len(substr) - 1) = substr}
    IN  IF I = {} THEN 0 ELSE CHOOSE i \in I : \A j \in I : i <= j

TrimPrefix(s, prefix) ==
    IF HasPrefix(s, prefix) THEN SubSeq(s, Len(prefix) + 1, Len(s)) ELSE s

\* strings.Split(s, sep) for a separator of any length
RECURSIVE SplitOn(_, _)
SplitOn(s, sep) ==
    LET i == Index(s, sep)
    IN  IF i = 0 THEN <<s>>
        ELSE <<SubSeq(s, 1, i - 1)>> \o SplitOn(SubSeq(s, i + Len(sep), Len(s)), sep)

\* strings.Fields: the maximal runs of non-space characters
RECURSIVE fieldsFrom(_, _)
fieldsFrom(s, cur) ==
    IF s = <<>> THEN (IF cur = <<>> THEN <<>> ELSE <<cur>>)
    ELSE IF IsSpaceChar(Head(s))
         THEN (IF cur = <<>> THEN <<>> ELSE <<cur>>) \o fieldsFrom(Tail(s), <<>>)
         ELSE fieldsFrom(Tail(s), Append(cur, Head(s)))

Fields(s) == fieldsFrom(s, <<>>)

(***************************************************************************)
(* modutils/module_parser.go: the line loop of ParseGoMod.  A parsed line  *)
(* is the nil pointer, <<>>, or the one directive it holds; the versions   *)
(* of a replacement are not kept.                                          *)
(***************************************************************************)
RequireDirective(path, version, indirect) ==
    [Path |-> path, Version |-> version, Indirect |-> indirect]

CommentMark == <<"/", "/">>
Arrow == <<"=", ">">>

parseRequireLine(line) ==
    LET idx == Index(line, CommentMark)
    IN  IF idx > 0
        THEN LET comment == TrimSpaceLine(SubSeq(line, idx + 2, Len(line)))
                 fields  == Fields(TrimSpaceLine(SubSeq(line, 1, idx - 1)))
             IN  IF Len(fields) >= 2
                 THEN <<RequireDirective(fields[1], fields[2],
                                         Contains(comment, <<"i", "n", "d", "i", "r", "e", "c", "t">>))>>
                 ELSE <<>>
        ELSE LET fields == Fields(line)
             IN  IF Len(fields) >= 2
                 THEN <<RequireDirective(fields[1], fields[2], FALSE)>>
                 ELSE <<>>

parseReplaceLine(line) ==
    LET idx   == Index(line, CommentMark)
        text  == IF idx > 0 THEN TrimSpaceLine(SubSeq(line, 1, idx - 1)) ELSE line
        parts == SplitOn(text, Arrow)
    IN  IF Len(parts) # 2 THEN <<>>
        ELSE LET oldFields == Fields(TrimSpaceLine(parts[1]))
                 newFields == Fields(TrimSpaceLine(parts[2]))
             IN  IF Len(oldFields) = 0 \/ Len(newFields) = 0 THEN <<>>
                 ELSE <<ReplaceDirective(oldFields[1], newFields[1])>>

\* ParseGoMod before the first line
newParse ==
    [inRequireBlock |-> FALSE, inReplaceBlock |-> FALSE,
     ModulePath |-> <<>>, GoVersion |-> <<>>, Requires |-> <<>>, Replaces |-> <<>>]

\* one round of `for scanner.Scan()`
parseLine(st, text) ==
    LET line == TrimSpaceLine(text)
    IN  IF line = <<>> \/ HasPrefix(line, CommentMark) THEN st
        ELSE IF line = <<")">>
        THEN [st EXCEPT !.inRequireBlock = FALSE, !.inReplaceBlock = FALSE]
        ELSE IF HasPrefix(line, <<"m", "o", "d", "u", "l", "e", " ">>)
        THEN [st EXCEPT !.ModulePath = TrimSpaceLine(TrimPrefix(line, <<"m", "o", "d", "u", "l", "e">>))]
        ELSE IF HasPrefix(line, <<"g", "o", " ">>)
        THEN [st EXCEPT !.GoVersion = TrimSpaceLine(TrimPrefix(line, <<"g", "o">>))]
        ELSE IF HasPrefix(line, <<"r", "e", "q", "u", "i", "r", "e", " ", "(">>)
        THEN [st EXCEPT !.inRequireBlock = TRUE]
        ELSE IF HasPrefix(line, <<"r", "e", "p", "l", "a", "c", "e", " ", "(">>)
        THEN [st EXCEPT !.inReplaceBlock = TRUE]
        ELSE IF HasPrefix(line, <<"r", "e", "q", "u", "i", "r", "e", " ">>)
        THEN [st EXCEPT !.Requires = @ \o parseRequireLine(TrimPrefix(line, <<"r", "e", "q", "u", "i", "r", "e", " ">>))]
        ELSE IF HasPrefix(line, <<"r", "e", "p", "l", "a", "c", "e", " ">>)
        THEN [st EXCEPT !.Replaces = @ \o parseReplaceLine(TrimPrefix(line, <<"r", "e", "p", "l", "a", "c", "e", " ">>))]
        ELSE IF st.inRequireBlock
        THEN [st EXCEPT !.Requires = @ \o parseRequireLine(line)]
        ELSE IF st.inReplaceBlock
        THEN [st EXCEPT !.Replaces = @ \o parseReplaceLine(line)]
        ELSE st

(***************************************************************************)
(* Specification SpecGoMod: ParseGoMod over the lines of a readable file,  *)
(* one line per step, any line of GoModLines next, at most MaxLines lines. *)
(* mod holds the parser's fields, the line just read and the line count.   *)
(***************************************************************************)
MaxLines == 3

GoModLines ==
    { <<>>, <<"/", "/", " ", "c">>, <<"m", "o", "d", "u", "l", "e", " ", "m">>, <<"g", "o", " ", "1", ".", "2", "1">>, <<"r", "e", "q", "u", "i", "r", "e", " ", "(">>, <<"r", "e", "p", "l", "a", "c", "e", " ", "(">>, <<")">>,
      <<"r", "e", "q", "u", "i", "r", "e", " ", "a", " ", "v", "1", " ", "/", "/", " ", "i", "n", "d", "i", "r", "e", "c", "t">>, <<" ", " ", "a", " ", "v", "1">>, <<"a", " ", "v", "1", " ", "/", "/", " ", "i", "n", "d", "i", "r", "e", "c", "t">>, <<"a">>,
      <<"r", "e", "p", "l", "a", "c", "e", " ", "a", " ", "v", "1", " ", "=", ">", " ", ".", "/", "b">>, <<"a", " ", "=", ">", " ", "b">>, <<"a", " ", "=", ">", " ", "b", " ", "=", ">", " ", "c">>, <<"=", ">", " ", "b">> }

InitGoMod ==
    /\ wr = NewWorkflowRegistry
    /\ processed = <<>>
    /\ res = Idle
    /\ scan = Idle
    /\ mod = [pc |-> "scan", st |-> newParse, line |-> <<>>, n |-> 0]

ScanLine(text) ==
    /\ mod # Idle
    /\ mod.pc = "scan"
    /\ mod.n < MaxLines
    /\ mod' = [mod EXCEPT !.st = parseLine(mod.st, text), !.line = text, !.n = @ + 1]
    /\ UNCHANGED <<wr, processed, res, scan>>

\* scanner.Scan() returns false: ParseGoMod returns info and no error
ReturnInfo ==
    /\ mod # Idle
    /\ mod.pc = "scan"
    /\ mod' = [mod EXCEPT !.pc = "done"]
    /\ UNCHANGED <<wr, processed, res, scan>>

NextGoMod ==
    \/ \E text \in GoModLines : ScanLine(text)
    \/ ReturnInfo

SpecGoMod == InitGoMod /\ [][NextGoMod]_vars

\* ---- claim side ----
\* the text of a line before its trailing comment, and the comment
C28_Body(x) ==
    IF Index(x, CommentMark) = 0 THEN x
    ELSE TrimSpaceLine(SubSeq(x, 1, Index(x, CommentMark) - 1))

C28_Comment(x) ==
    IF Index(x, CommentMark) = 0 THEN <<>>
    ELSE SubSeq(x, Index(x, CommentMark) + 2, Len(x))

\* a requirement `p v`, and a replacement with exactly one arrow and a path on
\* both sides
C28_Requirement(x) == Len(Fields(C28_Body(x))) >= 2

C28_RequireEntry(x) ==
    RequireDirective(Fields(C28_Body(x))[1], Fields(C28_Body(x))[2],
                     Contains(C28_Comment(x), <<"i", "n", "d", "i", "r", "e", "c", "t">>))

C28_Replacement(x) ==
    LET parts == SplitOn(C28_Body(x), Arrow)
    IN  Len(parts) = 2 /\ Fields(parts[1]) # <<>> /\ Fields(parts[2]) # <<>>

C28_ReplaceEntry(x) ==
    LET parts == SplitOn(C28_Body(x), Arrow)
    IN  ReplaceDirective(Fields(parts[1])[1], Fields(parts[2])[1])

\* lines that begin with a directive keyword are never block entries
C28_Keyword(line) ==
    \E k \in {<<"m", "o", "d", "u", "l", "e", " ">>, <<"g", "o", " ">>, <<"r", "e", "q", "u", "i", "r", "e", " ">>, <<"r", "e", "p", "l", "a", "c", "e", " ">>} : HasPrefix(line, k)

\* what the line just read has to add, given the blocks open before it
C28_NewRequires(before, line) ==
    IF line = <<>> \/ HasPrefix(line, CommentMark) \/ line = <<")">> THEN <<>>
    ELSE IF HasPrefix(line, <<"r", "e", "q", "u", "i", "r", "e", " ", "(">>) THEN <<>>
    ELSE IF HasPrefix(line, <<"r", "e", "q", "u", "i", "r", "e", " ">>)
    THEN (IF C28_Requirement(TrimPrefix(line, <<"r", "e", "q", "u", "i", "r", "e", " ">>))
          THEN <<C28_RequireEntry(TrimPrefix(line, <<"r", "e", "q", "u", "i", "r", "e", " ">>))>> ELSE <<>>)
    ELSE IF ~C28_Keyword(line) /\ before.inRequireBlock /\ C28_Requirement(line)
    THEN <<C28_RequireEntry(line)>>
    ELSE <<>>

C28_NewReplaces(before, line) ==
    IF line = <<>> \/ HasPrefix(line, CommentMark) \/ line = <<")">> THEN <<>>
    ELSE IF HasPrefix(line, <<"r", "e", "p", "l", "a", "c", "e", " ", "(">>) THEN <<>>
    ELSE IF HasPrefix(line, <<"r", "e", "p", "l", "a", "c", "e", " ">>)
    THEN (IF C28_Replacement(TrimPrefix(line, <<"r", "e", "p", "l", "a", "c", "e", " ">>))
          THEN <<C28_ReplaceEntry(TrimPrefix(line, <<"r", "e", "p", "l", "a", "c", "e", " ">>))>> ELSE <<>>)
    ELSE IF ~C28_Keyword(line) /\ before.inReplaceBlock /\ C28_Replacement(line)
    THEN <<C28_ReplaceEntry(line)>>
    ELSE <<>>

C28_Step ==
    (mod'.n = mod.n + 1) =>
        LET line == TrimSpaceLine(mod'.line)
        IN  /\ mod'.st.Requires = mod.st.Requires \o C28_NewRequires(mod.st, line)
            /\ mod'.st.Replaces = mod.st.Replaces \o C28_NewReplaces(mod.st, line)
            /\ line = <<")">> => ~mod'.st.inRequireBlock /\ ~mod'.st.inReplaceBlock
            /\ mod'.pc = "scan"

\* C28: every line read appends, at the end of Requires, one entry for a
\* well-formed requirement (single-line, or inside an open require block),
\* indirect iff its trailing comment says so, and at the end of Replaces one
\* entry for a well-formed replacement (single-line, or inside an open replace
\* block); every other line appends nothing and ends no parse, and a `)` line
\* leaves no block open.
C28_LineMachine == [][C28_Step]_vars
====
